---- MODULE Spec2Model ----
(***************************************************************************)
(* A model of the kixdns query engine (src/src/engine.rs): rule walking,   *)
(* the L1 rule cache and the L2 response cache, single-flight request      *)
(* coalescing, pipeline jumps and the response-action executor.            *)
(*                                                                         *)
(* Strings that the code inspects character by character (query names,     *)
(* domain suffixes) are sequences of one-character strings.  Identifiers   *)
(* that the code only compares and hashes (pipeline ids, rule names,       *)
(* upstream addresses, client addresses) are TLA+ strings.                 *)
(***************************************************************************)
EXTENDS Integers, Sequences, FiniteSets, TLC

\* Number of concurrent requests (handle_packet tasks) in the model.
NumCalls == 4

\* settings.response_jump_limit of the modelled configurations.
JumpLimit == 2

\* Range of the 64-bit hashes (FxHasher / DefaultHasher), reduced so that
\* distinct keys can collide as they can in the code.
HashSpace == 7

None == [kind |-> "none"]

Min(a, b) == IF a < b THEN a ELSE b
Max(a, b) == IF a > b THEN a ELSE b

(***************************************************************************)
(* Strings                                                                 *)
(***************************************************************************)

\* u8::to_ascii_lowercase on the characters of the model's alphabet
LowerChar(ch) ==
    CASE ch = "A" -> "a"
      [] ch = "B" -> "b"
      [] ch = "E" -> "e"
      [] ch = "X" -> "x"
      [] OTHER -> ch

\* str::to_ascii_lowercase
ToAsciiLowercase(s) == [i \in 1..Len(s) |-> LowerChar(s[i])]

\* str::ends_with
EndsWith(s, suffix) ==
    /\ Len(suffix) <= Len(s)
    /\ \A i \in 1..Len(suffix) : s[Len(s) - Len(suffix) + i] = suffix[i]

\* str::find('.'): index of the first dot, 0 when there is none
FindDot(s) ==
    IF \E i \in 1..Len(s) : s[i] = "."
    THEN CHOOSE i \in 1..Len(s) : s[i] = "." /\ \A j \in 1..(i - 1) : s[j] # "."
    ELSE 0

RECURSIVE SearchNames(_)
\* the names the suffix lookup probes: qname, then qname with leading labels stripped
SearchNames(s) ==
    IF FindDot(s) = 0 THEN {s}
    ELSE {s} \cup SearchNames(SubSeq(s, FindDot(s) + 1, Len(s)))

(***************************************************************************)
(* Hashes                                                                  *)
(***************************************************************************)

CharCode(ch) ==
    CASE ch = "a" -> 1
      [] ch = "b" -> 2
      [] ch = "x" -> 3
      [] ch = "." -> 4
      [] ch = "A" -> 5
      [] ch = "B" -> 6
      [] ch = "X" -> 8
      [] OTHER -> 9

\* code of an identifier that is hashed as a whole
IdCode(id) ==
    CASE id = "p1" -> 1
      [] id = "p2" -> 2
      [] id = "p3" -> 3
      [] id = "p4" -> 4
      [] id = "default" -> 5
      [] id = "10.0.0.1" -> 1
      [] id = "10.0.0.8" -> 8
      [] OTHER -> 6

\* one Hasher::write step
Mix(h, w) == (5 * h + w) % HashSpace

RECURSIVE HashChars(_, _, _)
HashChars(h, s, i) == IF i > Len(s) THEN h ELSE HashChars(Mix(h, CharCode(s[i])), s, i + 1)

\* impl Hash for str: the bytes followed by 0xff
HashStr(h, s) == Mix(HashChars(h, s, 1), 255)

\* Engine::calculate_cache_hash_for_dedupe
calculate_cache_hash_for_dedupe(pipeline_id, qname, qtype) ==
    Mix(HashStr(Mix(Mix(0, IdCode(pipeline_id)), 255), ToAsciiLowercase(qname)), qtype)

\* fast_hash_str
fast_hash_str(s) == HashStr(0, s)

\* calculate_rule_hash
calculate_rule_hash(pipeline_id, qname, client_ip) ==
    Mix(HashStr(Mix(Mix(0, IdCode(pipeline_id)), 255), qname), IdCode(client_ip))

(***************************************************************************)
(* Configuration values                                                    *)
(***************************************************************************)

Matcher(op, kind, value) == [operator |-> op, kind |-> kind, value |-> value]
Action(type, arg) == [type |-> type, arg |-> arg]

MAny == Matcher("and", "any", "")
MQclass(c) == Matcher("and", "qclass", c)

AStatic(rcode) == Action("static_response", rcode)
AStaticIp(ip) == Action("static_ip_response", ip)
AJump(p) == Action("jump_to_pipeline", p)
AForward == Action("forward", "")
AForwardTo(u) == Action("forward", u)
AAllow == Action("allow", "")
ADeny == Action("deny", "")
ALog == Action("log", "info")
AContinue == Action("continue", "")

RuleOf(name, matchers, actions, rm, onmatch, onmiss) ==
    [name |-> name, matcher_operator |-> "and", matchers |-> matchers,
     actions |-> actions, response_matchers |-> rm,
     response_actions_on_match |-> onmatch, response_actions_on_miss |-> onmiss]

SimpleRule(name, matchers, actions) == RuleOf(name, matchers, actions, <<>>, <<>>, <<>>)

PipelineOf(id, rules) == [id |-> id, rules |-> rules]

DefaultUpstream == "1.1.1.1:53"

\* Engine.listener_label of the engine under the requests
ListenerLabel == <<"e", "d", "g", "e">>

ConfigOf(min_ttl, pipelines) ==
    [settings |-> [default_upstream |-> DefaultUpstream, min_ttl |-> min_ttl,
                   response_jump_limit |-> JumpLimit],
     pipeline_select |-> <<>>,
     pipelines |-> pipelines]

\* ResponseRcode matcher: the response code must equal the value
RmRcode(v) == Matcher("and", "response_rcode", v)

(***************************************************************************)
(* Matchers                                                                *)
(***************************************************************************)

\* every item's predicate is invoked, whatever the accumulator
ChainStepEager(op, st, i, val) ==
    [acc |-> CASE op = "and" -> st.acc /\ val
               [] op = "or" -> st.acc \/ val
               [] op = "or_not" -> st.acc \/ ~val
               [] OTHER -> st.acc /\ ~val,
     invoked |-> st.invoked \cup {i}]

\* one pass of the loop of eval_match_chain over item i: st is the accumulator
\* and the set of items whose predicate has been invoked, val the value the
\* predicate of item i returns when it is invoked
ChainStep(op, st, i, val) ==
    LET invoked == st.invoked \cup {i}
    IN CASE op = "and" ->
              IF ~st.acc THEN st ELSE [acc |-> st.acc /\ val, invoked |-> invoked]
         [] op = "or" ->
              IF st.acc THEN st ELSE [acc |-> st.acc \/ val, invoked |-> invoked]
         [] op = "and_not" ->
              IF ~st.acc THEN st ELSE [acc |-> st.acc /\ ~val, invoked |-> invoked]
         [] op = "or_not" ->
              IF st.acc THEN st ELSE [acc |-> st.acc \/ ~val, invoked |-> invoked]
         [] OTHER ->
              IF ~st.acc THEN st ELSE [acc |-> st.acc /\ ~val, invoked |-> invoked]

RECURSIVE ChainFold(_, _, _, _)
\* the loop of eval_match_chain from item i on
ChainFold(ops, vals, i, st) ==
    IF i > Len(ops) THEN st
    ELSE ChainFold(ops, vals, i + 1, ChainStep(ops[i], st, i, vals[i]))

\* eval_match_chain with the predicates it invoked: ops[i] is the operator of
\* item i, vals[i] the value of its predicate
ChainRun(ops, vals) ==
    IF Len(ops) = 0 THEN [acc |-> TRUE, invoked |-> {}]
    ELSE ChainFold(ops, vals, 2, [acc |-> vals[1], invoked |-> {1}])

\* eval_match_chain
eval_match_chain(ops, vals) == ChainRun(ops, vals).acc

\* RuntimeMatcher::matches
MatcherMatches(m, qname, qclass, client_ip, edns_present) ==
    CASE m.kind = "any" -> TRUE
      [] m.kind = "domain_suffix" -> EndsWith(qname, m.value)
      [] m.kind = "client_ip" -> client_ip = m.value
      [] m.kind = "qclass" -> qclass = m.value
      [] m.kind = "edns_present" -> m.value = edns_present
      [] OTHER -> FALSE

\* the request-matcher chain of a rule on a request
RuleMatches(rule, qname, qclass, client_ip, edns_present) ==
    eval_match_chain([i \in 1..Len(rule.matchers) |-> rule.matchers[i].operator],
                     [i \in 1..Len(rule.matchers) |->
                        MatcherMatches(rule.matchers[i], qname, qclass, client_ip, edns_present)])

\* RuntimeResponseMatcher::matches on a parsed upstream message
ResponseMatcherMatches(m, upstream, msg) ==
    CASE m.kind = "response_rcode" -> msg.rcode = m.value
      [] m.kind = "upstream_equals" -> upstream = m.value
      [] OTHER -> FALSE

ResponseMatches(rms, upstream, msg) ==
    eval_match_chain([i \in 1..Len(rms) |-> rms[i].operator],
                     [i \in 1..Len(rms) |-> ResponseMatcherMatches(rms[i], upstream, msg)])

(***************************************************************************)
(* Rule index                                                              *)
(***************************************************************************)

\* sort_unstable + dedup of a set of rule indices
RECURSIVE SortedSeq(_)
SortedSeq(S) ==
    IF S = {} THEN <<>>
    ELSE LET m == CHOOSE x \in S : \A y \in S : x <= y
         IN <<m>> \o SortedSeq(S \ {m})

\* RuleIndex::new: each map is the list of its (key, rule) entries in the order
\* of insertion
RuleIndexNew ==
    [domain_exact |-> <<>>, domain_suffix |-> <<>>, query_type |-> <<>>,
     always_check |-> <<>>]

\* RuleIndex::add_rule. A compiled matcher is a matcher of kind domain_exact,
\* domain_suffix or query_type, or one the index does not look at; compile_matcher
\* turns Any into a DomainSuffix with the empty suffix, which is not indexed.
add_rule(index, rule_idx, rule) ==
    LET ms == rule.matchers
        and_chain == \A i \in 2..Len(ms) : ms[i].operator = "and"
        keyed == {i \in 1..Len(ms) :
                    \/ ms[i].kind = "domain_exact" /\ ms[i].value # <<>>
                    \/ ms[i].kind = "domain_suffix" /\ ms[i].value # <<>>
                    \/ ms[i].kind = "query_type"}
    IN IF ~and_chain \/ keyed = {}
       THEN [index EXCEPT !.always_check = Append(@, rule_idx)]
       ELSE LET m == ms[CHOOSE i \in keyed : \A j \in keyed : i <= j]
                e == [key |-> m.value, rule_idx |-> rule_idx]
            IN CASE m.kind = "domain_exact" -> [index EXCEPT !.domain_exact = Append(@, e)]
                 [] m.kind = "domain_suffix" -> [index EXCEPT !.domain_suffix = Append(@, e)]
                 [] OTHER -> [index EXCEPT !.query_type = Append(@, e)]

RECURSIVE BuildIndex(_, _)
\* compile_pipeline: the index after add_rule on the first n rules
BuildIndex(rules, n) ==
    IF n = 0 THEN RuleIndexNew ELSE add_rule(BuildIndex(rules, n - 1), n, rules[n])

\* HashMap::get on a map of the index: the rules filed under key
IndexGet(entries, key) ==
    LET hits == SelectSeq(entries, LAMBDA e : e.key = key)
    IN [i \in 1..Len(hits) |-> hits[i].rule_idx]

RECURSIVE SuffixLoop(_, _)
\* the loop of get_candidates over search_name
SuffixLoop(index, search_name) ==
    IndexGet(index.domain_suffix, search_name)
      \o (IF FindDot(search_name) = 0 THEN <<>>
          ELSE SuffixLoop(index, SubSeq(search_name, FindDot(search_name) + 1,
                                        Len(search_name))))

RECURSIVE Dedup(_)
\* Vec::dedup: consecutive equal elements are reduced to one
Dedup(s) ==
    IF Len(s) < 2 THEN s
    ELSE IF s[1] = s[2] THEN Dedup(Tail(s)) ELSE <<s[1]>> \o Dedup(Tail(s))

\* the candidates are returned as collected
get_candidates_unsorted(index, qname, qtype) ==
    Dedup(index.always_check \o IndexGet(index.domain_exact, qname)
            \o SuffixLoop(index, qname) \o IndexGet(index.query_type, qtype))

\* RuleIndex::get_candidates
get_candidates(index, qname, qtype) ==
    Dedup(SortSeq(index.always_check \o IndexGet(index.domain_exact, qname)
                    \o SuffixLoop(index, qname) \o IndexGet(index.query_type, qtype),
                  LAMBDA a, b : a < b))

\* CompiledPipeline.index of a compiled pipeline
IndexOf(cp) == BuildIndex(cp.rules, Len(cp.rules))

\* RuntimePipelineConfig::from_config: the runtime suffix index of a rule
RuntimeBucket(rule) ==
    LET ms == rule.matchers
        keyed == {i \in 1..Len(ms) : ms[i].kind = "domain_suffix"}
    IN IF rule.matcher_operator = "and" /\ keyed # {}
       THEN [kind |-> "suffix", key |-> ms[CHOOSE i \in keyed : \A j \in keyed : i <= j].value]
       ELSE None

\* the fallback candidate selection of apply_rules
RuntimeCandidates(pipeline, qname) ==
    SortedSeq({i \in 1..Len(pipeline.rules) :
        LET b == RuntimeBucket(pipeline.rules[i])
        IN b = None \/ b.key \in SearchNames(qname)})

\* Engine::compiled_for
CompiledFor(compiled, pipeline_id) ==
    LET hit == {i \in 1..Len(compiled) : compiled[i].id = pipeline_id}
    IN IF hit = {} THEN None ELSE compiled[CHOOSE i \in hit : \A j \in hit : i <= j]

\* cfg.pipelines.iter().find(|p| p.id == id)
FindPipeline(cfg, id) == CompiledFor(cfg.pipelines, id)

(***************************************************************************)
(* Decisions and the request-phase rule walk                               *)
(***************************************************************************)

\* parse_rcode
parse_rcode(s) ==
    CASE s \in {"NOERROR", "noerror"} -> "NoError"
      [] s \in {"FORMERR", "formerr"} -> "FormErr"
      [] s \in {"SERVFAIL", "servfail"} -> "ServFail"
      [] s \in {"NXDOMAIN", "nxdomain"} -> "NXDomain"
      [] s \in {"NOTIMP", "notimp"} -> "NotImp"
      [] s \in {"REFUSED", "refused"} -> "Refused"
      [] OTHER -> "none"

\* parse_rcode(..).unwrap_or(ResponseCode::NXDomain)
RcodeOrNx(s) == IF parse_rcode(s) = "none" THEN "NXDomain" ELSE parse_rcode(s)

\* str::parse::<IpAddr>
ParseIp(ip) ==
    CASE ip \in {"10.9.9.9", "192.0.2.1"} -> "v4"
      [] ip \in {"::1", "2001:db8::1"} -> "v6"
      [] OTHER -> "bad"

\* every address string gives an A record
make_static_ip_answer_v4(qname, ip) ==
    IF ParseIp(ip) = "bad"
    THEN [rcode |-> "ServFail", answers |-> <<>>]
    ELSE [rcode |-> "NoError",
          answers |-> <<[name |-> qname, ttl |-> 300, rtype |-> "A", data |-> ip]>>]

\* make_static_ip_answer
make_static_ip_answer(qname, ip) ==
    IF ParseIp(ip) = "bad"
    THEN [rcode |-> "ServFail", answers |-> <<>>]
    ELSE [rcode |-> "NoError",
          answers |-> <<[name |-> qname, ttl |-> 300,
                         rtype |-> IF ParseIp(ip) = "v4" THEN "A" ELSE "AAAA",
                         data |-> ip]>>]

StaticDecision(rcode, answers) == [kind |-> "static", rcode |-> rcode, answers |-> answers]

\* the StaticIpResponse arm of apply_rules, which builds the record itself
StaticIpArm(qname, ip) ==
    IF ParseIp(ip) # "bad"
    THEN StaticDecision("NoError",
                        <<[name |-> qname, ttl |-> 300,
                           rtype |-> IF ParseIp(ip) = "v4" THEN "A" ELSE "AAAA",
                           data |-> ip]>>)
    ELSE StaticDecision("ServFail", <<>>)

JumpDecision(p) == [kind |-> "jump", pipeline |-> p]

ForwardDecision(upstream, rm, onmatch, onmiss, rule_name, allow_reuse) ==
    [kind |-> "forward", upstream |-> upstream, response_matchers |-> rm,
     response_actions_on_match |-> onmatch, response_actions_on_miss |-> onmiss,
     rule_name |-> rule_name, transport |-> "udp", allow_reuse |-> allow_reuse]

\* the Forward decision of a pipeline-less config and of a walk that no rule ends
DefaultForward(cfg) ==
    ForwardDecision(cfg.settings.default_upstream, <<>>, <<>>, <<>>, "default", FALSE)

\* every walk result is reported as cacheable
WalkedCacheable(d, cacheable) == [kind |-> "term", d |-> d, cacheable |-> TRUE]

\* contains_continue
contains_continue(actions) == \E i \in 1..Len(actions) : actions[i].type = "continue"

Walked(d, cacheable) == [kind |-> "term", d |-> d, cacheable |-> cacheable]

RECURSIVE WalkActions(_, _, _, _)
\* the action loop of a matched rule, from action i: the decision it returns and
\* whether apply_rules writes it to the rule cache; None when the rule is left
WalkActions(cfg, rule, qname, i) ==
    IF i > Len(rule.actions) THEN None
    ELSE LET a == rule.actions[i] IN
      CASE a.type = "static_response" ->
             Walked(StaticDecision(RcodeOrNx(a.arg), <<>>), TRUE)
        [] a.type = "static_ip_response" -> Walked(StaticIpArm(qname, a.arg), TRUE)
        [] a.type = "jump_to_pipeline" -> Walked(JumpDecision(a.arg), TRUE)
        [] a.type = "allow" ->
             Walked(ForwardDecision(cfg.settings.default_upstream, <<>>, <<>>, <<>>,
                                    rule.name, TRUE), TRUE)
        [] a.type = "deny" -> Walked(StaticDecision("Refused", <<>>), TRUE)
        [] a.type = "forward" ->
             Walked(ForwardDecision(
                        IF a.arg = "" THEN cfg.settings.default_upstream ELSE a.arg,
                        rule.response_matchers, rule.response_actions_on_match,
                        rule.response_actions_on_miss, rule.name, FALSE),
                    ~contains_continue(rule.response_actions_on_match)
                      /\ ~contains_continue(rule.response_actions_on_miss))
        [] a.type = "log" -> WalkActions(cfg, rule, qname, i + 1)
        [] OTHER -> None

RECURSIVE WalkRules(_, _, _, _, _, _)
\* step 3 of apply_rules: the candidates from position k on
WalkRules(cfg, pipeline, cands, k, q, skip_rules) ==
    IF k > Len(cands) THEN Walked(DefaultForward(cfg), TRUE)
    ELSE LET rule == pipeline.rules[cands[k]]
             r == IF rule.name \in skip_rules
                     \/ ~RuleMatches(rule, q.qname, q.qclass, q.client_ip, q.edns_present)
                  THEN None
                  ELSE WalkActions(cfg, rule, q.qname, 1)
         IN IF r = None THEN WalkRules(cfg, pipeline, cands, k + 1, q, skip_rules) ELSE r

\* RuleCacheEntry::matches
RuleCacheEntryMatches(entry, pipeline_id, qname, client_ip) ==
    /\ entry.client_ip = client_ip
    /\ entry.pipeline_id = pipeline_id
    /\ entry.qname_hash = fast_hash_str(qname)

\* step 2 of apply_rules: the compiled index, else the runtime index
Candidates(compiled, pipeline, qname, qtype) ==
    LET cp == CompiledFor(compiled, pipeline.id)
        cands == IF cp = None THEN <<>> ELSE get_candidates(IndexOf(cp), qname, qtype)
    IN IF cands = <<>> THEN RuntimeCandidates(pipeline, qname) ELSE cands

\* Engine::apply_rules: the decision, the rule cache after the call and, when
\* the decision came from the rule cache, the entry that was used (hit).
\* q is the request as parsed: qname, qtype, qclass, client_ip, edns_present.
apply_rules(rule_cache, compiled, cfg, pipeline, q, skip_rules) ==
    LET rule_hash == calculate_rule_hash(pipeline.id, q.qname, q.client_ip)
        entry == rule_cache[rule_hash]
    IN IF skip_rules = {} /\ entry # None
          /\ RuleCacheEntryMatches(entry, pipeline.id, q.qname, q.client_ip)
       THEN [decision |-> entry.decision, rule_cache |-> rule_cache, hit |-> entry]
       ELSE LET w == WalkRules(cfg, pipeline, Candidates(compiled, pipeline, q.qname, q.qtype),
                               1, q, skip_rules)
            IN [decision |-> w.d, hit |-> None,
                rule_cache |->
                   IF w.cacheable
                   THEN [rule_cache EXCEPT ![rule_hash] =
                            [pipeline_id |-> pipeline.id,
                             qname_hash |-> fast_hash_str(q.qname),
                             client_ip |-> q.client_ip,
                             decision |-> w.d]]
                   ELSE rule_cache]

(***************************************************************************)
(* Packets.  A request packet is its transaction id, question and the      *)
(* peer; response bytes are the leading two bytes (id) and the rest (body) *)
(***************************************************************************)

\* parse_quick on a well-formed query: the name lower-cased, EDNS not looked at
parse_quick(packet) ==
    [qname |-> ToAsciiLowercase(packet.qname), qtype |-> packet.qtype,
     qclass |-> packet.qclass, tx_id |-> packet.tx_id,
     client_ip |-> packet.client_ip, edns_present |-> FALSE]

\* build_response with the response code left at NOERROR
build_response_noerror(packet, rcode, answers) ==
    [id |-> packet.tx_id,
     body |-> [kind |-> "built", rcode |-> "NoError", answers |-> answers, rd |-> packet.rd,
               question |-> [qname |-> packet.qname, qtype |-> packet.qtype,
                             qclass |-> packet.qclass]]]

\* build_response: id, RD and question section copied from the request
build_response(packet, rcode, answers) ==
    [id |-> packet.tx_id,
     body |-> [kind |-> "built", rcode |-> rcode, answers |-> answers, rd |-> packet.rd,
               question |-> [qname |-> packet.qname, qtype |-> packet.qtype,
                             qclass |-> packet.qclass]]]

\* build_fast_static_response: RD set, question rebuilt from the quick parse
build_fast_static_response(tx_id, qname, qtype, qclass, rcode, answers) ==
    [id |-> tx_id,
     body |-> [kind |-> "built", rcode |-> rcode, answers |-> answers, rd |-> TRUE,
               question |-> [qname |-> qname, qtype |-> qtype, qclass |-> qclass]]]

\* what an upstream call can come back with: a reply (rcode, minimum answer TTL),
\* bytes that do not parse as a DNS message, or an error (timeout, I/O)
UpstreamOutcomes ==
    { [kind |-> "reply", rcode |-> "NoError", ttl |-> 60],
      [kind |-> "reply", rcode |-> "NXDomain", ttl |-> 0],
      [kind |-> "garbage"],
      [kind |-> "fail"] }

\* UdpClient::send / TcpMuxClient::rewrite_id: the packet goes out under an id of
\* the client's own
RewritePacketId(packet, new_id) == [packet EXCEPT !.tx_id = new_id]

\* the upstream's answer to the packet it received: same id, same question
UpstreamAnswer(sent, upstream, o) ==
    [id |-> sent.tx_id,
     body |-> IF o.kind = "garbage" THEN [kind |-> "garbage"]
              ELSE [kind |-> "upstream", rcode |-> o.rcode, ttl |-> o.ttl,
                    from |-> upstream,
                    question |-> [qname |-> sent.qname, qtype |-> sent.qtype,
                                  qclass |-> sent.qclass]]]

\* the receive task writes the original id back over the first two bytes
RestoreId(resp_data, original_id) == [resp_data EXCEPT !.id = original_id]

\* the bytes forward_upstream returns for a call whose send got id new_id
UpstreamBytes(packet, upstream, o, new_id) ==
    RestoreId(UpstreamAnswer(RewritePacketId(packet, new_id), upstream, o), packet.tx_id)

\* Message::from_bytes on upstream bytes succeeds
Parses(raw) == raw.body.kind # "garbage"

\* extract_ttl
extract_ttl(raw) == raw.body.ttl

\* a copy whose first two bytes are left as they are
KeepId(bytes, tx_id) == bytes

\* the requester's id written over the first two bytes of a copy
RewriteId(bytes, tx_id) == [bytes EXCEPT !.id = tx_id]

\* rcode as the response_rcode matcher compares it
RcodeStr(rcode) ==
    CASE rcode = "NoError" -> "NOERROR"
      [] rcode = "NXDomain" -> "NXDOMAIN"
      [] rcode = "ServFail" -> "SERVFAIL"
      [] rcode = "Refused" -> "REFUSED"
      [] OTHER -> "OTHER"

ResponseContext(raw, upstream) == [raw |-> raw, upstream |-> upstream]

\* the response matchers are not evaluated: no match
RespMatchNever(rms, ctx) == FALSE

\* evaluation of a rule's response matchers against a response context
RespMatch(rms, ctx) ==
    ResponseMatches(rms, ctx.upstream, [rcode |-> RcodeStr(ctx.raw.body.rcode)])

(***************************************************************************)
(* L2 response cache                                                       *)
(***************************************************************************)

CacheEntry(bytes, rcode, source, qname, pipeline_id, qtype) ==
    [bytes |-> bytes, rcode |-> rcode, source |-> source, qname |-> qname,
     pipeline_id |-> pipeline_id, qtype |-> qtype]

\* a validation that does not compare the record type
CacheEntryValidName(hit, pipeline_id, qname, qtype) ==
    /\ hit.qname = qname
    /\ hit.pipeline_id = pipeline_id

\* the validation of a probed L2 entry against the request
CacheEntryValid(hit, pipeline_id, qname, qtype) ==
    /\ hit.qtype = qtype
    /\ hit.qname = qname
    /\ hit.pipeline_id = pipeline_id

\* the L2 probe of handle_packet_fast and handle_packet
CacheProbe(cache, pipeline_id, qname, qtype) ==
    LET hit == cache[calculate_cache_hash_for_dedupe(pipeline_id, qname, qtype)]
    IN IF hit # None /\ CacheEntryValid(hit, pipeline_id, qname, qtype)
       THEN hit ELSE None

\* RuntimePipelineSelectorMatcher::matches
SelectorMatches(m, listener_label, client_ip, qname, qclass, edns_present) ==
    CASE m.kind = "listener_label" ->
            ToAsciiLowercase(m.value) = ToAsciiLowercase(listener_label)
      [] m.kind = "client_ip" -> client_ip = m.value
      [] m.kind = "domain_suffix" -> EndsWith(qname, m.value)
      [] m.kind = "any" -> TRUE
      [] m.kind = "qclass" -> qclass = m.value
      [] m.kind = "edns_present" -> m.value = edns_present
      [] OTHER -> FALSE

\* the matcher chain of a pipeline_select rule on a request
SelectorChain(rule, listener_label, q) ==
    eval_match_chain([i \in 1..Len(rule.matchers) |-> rule.matchers[i].operator],
                     [i \in 1..Len(rule.matchers) |->
                        SelectorMatches(rule.matchers[i], listener_label, q.client_ip,
                                        q.qname, q.qclass, q.edns_present)])

\* the fallback of select_pipeline: the first pipeline, or "default"
FirstPipeline(cfg) ==
    IF Len(cfg.pipelines) > 0
    THEN [pipeline |-> cfg.pipelines[1], id |-> cfg.pipelines[1].id]
    ELSE [pipeline |-> None, id |-> "default"]

\* the last selector that matches is taken
select_pipeline_last(cfg, listener_label, q) ==
    LET sel == cfg.pipeline_select
        taken == {i \in 1..Len(sel) :
                    /\ SelectorChain(sel[i], listener_label, q)
                    /\ FindPipeline(cfg, sel[i].pipeline) # None}
    IN IF taken # {}
       THEN LET p == FindPipeline(cfg, sel[CHOOSE i \in taken : \A j \in taken : j <= i].pipeline)
            IN [pipeline |-> p, id |-> p.id]
       ELSE FirstPipeline(cfg)

\* select_pipeline: q is the request as parsed
select_pipeline(cfg, listener_label, q) ==
    LET sel == cfg.pipeline_select
        taken == {i \in 1..Len(sel) :
                    /\ SelectorChain(sel[i], listener_label, q)
                    /\ FindPipeline(cfg, sel[i].pipeline) # None}
    IN IF taken # {}
       THEN LET p == FindPipeline(cfg, sel[CHOOSE i \in taken : \A j \in taken : i <= j].pipeline)
            IN [pipeline |-> p, id |-> p.id]
       ELSE FirstPipeline(cfg)

(***************************************************************************)
(* Synchronous fast path                                                   *)
(***************************************************************************)

\* precompute_action: only the first action of a rule is looked at
precompute_action(rule) ==
    IF Len(rule.actions) = 0 THEN None
    ELSE LET a == rule.actions[1] IN
      CASE a.type = "static_response" ->
             IF parse_rcode(a.arg) = "none" THEN None
             ELSE [kind |-> "static", rcode |-> parse_rcode(a.arg)]
        [] a.type = "static_ip_response" -> [kind |-> "static_ip", ip |-> a.arg]
        [] a.type = "deny" -> [kind |-> "static", rcode |-> "Refused"]
        [] OTHER -> None

RECURSIVE FastWalk(_, _, _, _)
\* the candidate loop of fast_static_match: a matched rule without a precomputed
\* action does not stop the loop
FastWalk(cp, cands, k, q) ==
    IF k > Len(cands) THEN None
    ELSE LET rule == cp.rules[cands[k]]
             pre == precompute_action(rule)
         IN IF RuleMatches(rule, q.qname, q.qclass, q.client_ip, FALSE) /\ pre # None
            THEN IF pre.kind = "static"
                 THEN StaticDecision(pre.rcode, <<>>)
                 ELSE LET r == make_static_ip_answer(q.qname, pre.ip)
                      IN StaticDecision(r.rcode, r.answers)
            ELSE FastWalk(cp, cands, k + 1, q)

fast_static_match(cp, q) ==
    FastWalk(cp, get_candidates(IndexOf(cp), q.qname, q.qtype), 1, q)

\* the three probes of handle_packet_fast: the bytes it answers with, the phase
\* it logs and the cache entry it used; None when it falls back to the async path
FastPath(cfg, compiled, cache, rule_cache, packet) ==
    LET q == parse_quick(packet)
        pipeline_id == select_pipeline(cfg, ListenerLabel, q).id
        hit == CacheProbe(cache, pipeline_id, q.qname, q.qtype)
        cp == CompiledFor(compiled, pipeline_id)
        fs == IF cp = None THEN None ELSE fast_static_match(cp, q)
        entry == rule_cache[calculate_rule_hash(pipeline_id, q.qname, q.client_ip)]
    IN IF hit # None
       THEN [kind |-> "some", phase |-> "cache_hit", used |-> hit,
             bytes |-> RewriteId(hit.bytes, q.tx_id)]
       ELSE IF fs # None
       THEN [kind |-> "some", phase |-> "fast_static", used |-> None,
             bytes |-> build_fast_static_response(q.tx_id, q.qname, q.qtype, q.qclass,
                                                  fs.rcode, fs.answers)]
       ELSE IF /\ entry # None
               /\ RuleCacheEntryMatches(entry, pipeline_id, q.qname, q.client_ip)
               /\ entry.decision.kind = "static"
       THEN [kind |-> "some", phase |-> "rule_cache_hit", used |-> entry,
             bytes |-> build_fast_static_response(q.tx_id, q.qname, q.qtype, q.qclass,
                                                  entry.decision.rcode,
                                                  entry.decision.answers)]
       ELSE None

\* Engine::handle_packet_fast: Some(bytes) as the bytes, Ok(None) as None
handle_packet_fast(cfg, compiled, cache, rule_cache, packet) ==
    LET r == FastPath(cfg, compiled, cache, rule_cache, packet)
    IN IF r = None THEN None ELSE r.bytes

(***************************************************************************)
(* The in-flight map, its channels and the cleanup guards.                 *)
(*                                                                         *)
(* The operators below transform a record w: the shared maps (cache,       *)
(* rule_cache, inflight), the compiled pipelines in force, the receiving   *)
(* ends of the oneshot channels (chan, one per blocked call), and the      *)
(* locals of the running call (c, call number me).                         *)
(***************************************************************************)

InSeq(x, s) == \E i \in 1..Len(s) : s[i] = x

Pending == [kind |-> "pending"]

Closed == [kind |-> "closed"]

Delivered(bytes) == [kind |-> "bytes", bytes |-> bytes]

\* inflight.remove(hash) with the senders dropped unsent: receivers see an error
RemoveSlot(w, hash) ==
    IF w.inflight[hash] = None THEN w
    ELSE [w EXCEPT !.inflight[hash] = None,
                   !.chan = [x \in DOMAIN w.chan |->
                               IF InSeq(x, w.inflight[hash].waiters) THEN Closed
                               ELSE w.chan[x]]]

\* the slot is removed and its senders are dropped without a message
notify_dropping(w, dedupe_hash, bytes) ==
    IF w.inflight[dedupe_hash] = None THEN w
    ELSE [w EXCEPT !.inflight[dedupe_hash] = None,
                   !.chan = [x \in DOMAIN w.chan |->
                               IF InSeq(x, w.inflight[dedupe_hash].waiters)
                               THEN Closed
                               ELSE w.chan[x]]]

\* Engine::notify_inflight_waiters
notify_inflight_waiters(w, dedupe_hash, bytes) ==
    IF w.inflight[dedupe_hash] = None THEN w
    ELSE [w EXCEPT !.inflight[dedupe_hash] = None,
                   !.chan = [x \in DOMAIN w.chan |->
                               IF InSeq(x, w.inflight[dedupe_hash].waiters)
                               THEN Delivered(bytes)
                               ELSE w.chan[x]]]

\* InflightCleanupGuard
Guard(hash) == [hash |-> hash, active |-> TRUE]

\* InflightCleanupGuard::defuse on an Option<InflightCleanupGuard>
Defuse(g) == IF g = None THEN None ELSE [g EXCEPT !.active = FALSE]

DefuseAll(gs) == [i \in 1..Len(gs) |-> Defuse(gs[i])]

\* Drop for InflightCleanupGuard
DropGuard(w, g) == IF g = None \/ ~g.active THEN w ELSE RemoveSlot(w, g.hash)

RECURSIVE DropGuards(_, _, _)
DropGuards(w, gs, i) ==
    IF i > Len(gs) THEN w ELSE DropGuards(DropGuard(w, gs[i]), gs, i + 1)

RECURSIVE NotifyAll(_, _, _, _)
\* for h in &inflight_hashes { notify_inflight_waiters(*h, bytes) }
NotifyAll(w, hashes, i, bytes) ==
    IF i > Len(hashes) THEN w
    ELSE NotifyAll(notify_inflight_waiters(w, hashes[i], bytes), hashes, i + 1, bytes)

\* Entry::Occupied: a new channel whose sender is pushed on the slot
PushWaiter(w, hash) ==
    [w EXCEPT !.inflight[hash].waiters = Append(@, w.me),
              !.chan[w.me] = Pending]

\* Entry::Vacant: an empty waiter list is inserted
ClaimSlot(w, hash) ==
    [w EXCEPT !.inflight[hash] = [waiters |-> <<>>, owner |-> w.me]]

AnyActive(gs) == \E i \in 1..Len(gs) : gs[i].active

\* the guards a returning call still has to drop
GuardsToDrop(c) ==
    (IF c.pj = None THEN <<>> ELSE c.pj.cleanup_guards)
      \o (IF c.cleanup_guard = None THEN <<>> ELSE <<c.cleanup_guard>>)

\* return Ok(bytes) / return Err(..) from handle_packet: the result is fixed and
\* the locals are dropped next
Return(w, result) ==
    [w EXCEPT !.c.result = result,
              !.c.pc = IF AnyActive(GuardsToDrop(w.c)) THEN "exit" ELSE "done"]

ReturnOk(w, bytes) == Return(w, [kind |-> "ok", bytes |-> bytes])

ReturnErr(w) == Return(w, [kind |-> "err"])

(***************************************************************************)
(* handle_packet, apply_response_actions and process_response_jump as      *)
(* straight-line segments between two awaits.  A segment ends in a return  *)
(* or in an await: pc "upstream" (forward_upstream) or "await" (rx.await), *)
(* with site naming the call site to resume at.                            *)
(***************************************************************************)

\* cap of the per-request counters kept for the properties
CountCap == 6

\* the decision the rules of a pipeline give when all of them are tried in
\* declaration order
FirstMatchDecision(cfg, pipeline, q, skip_rules) ==
    WalkRules(cfg, pipeline, [i \in 1..Len(pipeline.rules) |-> i], 1, q, skip_rules).d

\* bookkeeping of one apply_rules call of the running request: the rule cache
\* it leaves, whether it decided as the first matching rule decides, and the
\* rule-cache entry it used
Applied(w, r, pipeline, skip_rules) ==
    [w EXCEPT !.rule_cache = r.rule_cache,
              !.c.ordered = @ /\ r.decision =
                                   FirstMatchDecision(w.c.cfg, pipeline, w.c.q, skip_rules),
              !.c.l1_used = IF r.hit = None THEN @
                            ELSE @ \cup {[pipeline_id |-> pipeline.id,
                                          entry_pipeline_id |-> r.hit.pipeline_id,
                                          entry_client_ip |-> r.hit.client_ip,
                                          entry_qname_hash |-> r.hit.qname_hash,
                                          entry_decision |-> r.hit.decision]}]

Bump(n) == Min(n + 1, CountCap)

ServFailDecision == StaticDecision("ServFail", <<>>)

\* the locals of one apply_response_actions call
RaFrame(actions, ctx_opt, response_matchers, rule_name, remaining_jumps, from) ==
    [actions |-> actions, i |-> 1, ctx_opt |-> ctx_opt, forward_attempts |-> 0,
     response_matchers |-> response_matchers, rule_name |-> rule_name,
     remaining_jumps |-> remaining_jumps, upstream_addr |-> "", from |-> from]

\* the locals of one process_response_jump call
PjFrame(pipeline_id, remaining_jumps, from) ==
    [pipeline_id |-> pipeline_id, remaining_jumps |-> remaining_jumps,
     skip_rules |-> {}, reused_response |-> None, inflight_hashes |-> <<>>,
     cleanup_guards |-> <<>>, dedupe_hash |-> 0, decision |-> None,
     from |-> from, jumped |-> TRUE]

\* const MAX_RESPONSE_FORWARDS
MAX_RESPONSE_FORWARDS == 4

\* no number of Forward actions is over the limit
ForwardLimitNever(forward_attempts) == FALSE

\* forward_attempts > MAX_RESPONSE_FORWARDS, after the increment
ForwardLimitExceeded(forward_attempts) == forward_attempts > MAX_RESPONSE_FORWARDS

\* the running call goes on at another place of the code: a call of
\* apply_response_actions or process_response_jump, the return of a result to
\* the caller, or the next pass of 'decision_loop
Goto(w, op, arg) == [w EXCEPT !.k = [kind |-> "goto", op |-> op, arg |-> arg]]

\* apply_response_actions is called with the locals of frame
StartActions(w, frame) ==
    Goto([w EXCEPT !.c.ra = frame,
                   !.c.last_ra = [actions |-> frame.actions, ctx_opt |-> frame.ctx_opt],
                   !.c.ra_forwards = 0, !.c.ra_calls = 0],
         "apply_response_actions", None)

RECURSIVE ResolveJumps(_, _, _)

\* the inner loop of 'decision_loop: rule-level jumps are followed until the
\* decision is Static or Forward; jump_count starts at 0 on every entry
ResolveJumps(w, decision, jump_count) ==
    IF decision.kind # "jump" THEN [w EXCEPT !.c.decision = decision]
    ELSE IF jump_count + 1 > w.c.cfg.settings.response_jump_limit
    THEN [w EXCEPT !.c.decision = ServFailDecision]
    ELSE LET p == FindPipeline(w.c.cfg, decision.pipeline) IN
         IF p = None
         THEN [w EXCEPT !.c.decision = ServFailDecision, !.c.missing_jump = "request"]
         ELSE LET r == apply_rules(w.rule_cache, w.compiled, w.c.cfg, p, w.c.q, {})
              IN ResolveJumps(
                   [Applied(w, r, p, {}) EXCEPT
                             !.c.current_pipeline_id = decision.pipeline,
                             !.c.dedupe_hash =
                                 calculate_cache_hash_for_dedupe(
                                     decision.pipeline, w.c.q.qname, w.c.q.qtype),
                             !.c.dedupe_registered = FALSE,
                             !.c.skip_rules = {},
                             !.c.rewalk = FALSE,
                             !.c.request_jumps = Bump(@),
                             !.c.transitions = Bump(@)],
                   r.decision, jump_count + 1)

\* self.cache.insert(hash, entry); the call records the effective TTL the entry
\* was inserted with
CacheInsert(w, hash, entry, effective_ttl) ==
    [w EXCEPT !.cache[hash] = entry,
              !.c.inserted_ttls = @ \cup {effective_ttl}]

\* Decision::Static arm of handle_packet
StaticArm(w) ==
    LET d == w.c.decision
        resp_bytes == build_response(w.c.packet, d.rcode, d.answers)
        min_ttl == w.c.cfg.settings.min_ttl
        w1 == IF min_ttl > 0
              THEN CacheInsert(w, w.c.dedupe_hash,
                       CacheEntry(resp_bytes, d.rcode, "static", w.c.q.qname,
                                  w.c.current_pipeline_id, w.c.q.qtype), min_ttl)
              ELSE w
    IN ReturnOk([w1 EXCEPT !.c.path = "static"], resp_bytes)

\* forward_upstream(..).await is entered
AwaitUpstream(w, site, upstream) ==
    [w EXCEPT !.c.pc = "upstream", !.c.site = site, !.c.upstream_addr = upstream,
              !.c.upstream_calls = Bump(@)]

\* rx.await is entered
AwaitLeader(w, site, hash) ==
    [PushWaiter(w, hash) EXCEPT !.c.pc = "await", !.c.site = site, !.c.followed = hash,
                                !.c.leader = w.inflight[hash].owner]

\* cache.insert(hash, entry) when the condition of the call site holds
CacheInsertIf(w, cond, hash, entry, effective_ttl) ==
    IF cond THEN CacheInsert(w, hash, entry, effective_ttl) ELSE w

\* match resp { Ok(raw) => .., Err(err) => .. } of handle_packet, up to the call
\* of apply_response_actions
HandleResp(w, resp) ==
    LET c == w.c
        d == c.decision
        min_ttl == c.cfg.settings.min_ttl
    IN
    IF resp.kind = "ok"
    THEN IF ~Parses(resp.raw) THEN ReturnErr(w)
         ELSE
         LET raw == resp.raw
             simple == /\ d.response_matchers = <<>>
                       /\ d.response_actions_on_match = <<>>
                       /\ d.response_actions_on_miss = <<>>
             ctx == ResponseContext(raw, d.upstream)
             resp_match_ok == IF simple THEN FALSE
                              ELSE RespMatch(d.response_matchers, ctx)
             actions_to_run ==
                 IF d.response_actions_on_match # <<>> \/ d.response_actions_on_miss # <<>>
                 THEN IF resp_match_ok THEN d.response_actions_on_match
                      ELSE d.response_actions_on_miss
                 ELSE <<>>
             effective_ttl == Max(extract_ttl(raw), min_ttl)
         IN IF actions_to_run = <<>>
            THEN LET w1 == CacheInsertIf(w, effective_ttl > 0, c.dedupe_hash,
                               CacheEntry(raw, raw.body.rcode, d.upstream, c.q.qname,
                                          c.pipeline_id, c.q.qtype), effective_ttl)
                     w2 == [w1 EXCEPT !.c.cleanup_guard = Defuse(@),
                                      !.c.path = "forwarded"]
                 IN ReturnOk(notify_inflight_waiters(w2, c.dedupe_hash, raw), raw)
            ELSE StartActions(w, RaFrame(actions_to_run, ctx, d.response_matchers,
                                         d.rule_name,
                                         c.cfg.settings.response_jump_limit, "hp_ok"))
    ELSE IF d.response_actions_on_miss = <<>>
    THEN LET resp_bytes == build_response(c.packet, "ServFail", <<>>)
             w1 == [w EXCEPT !.c.cleanup_guard = Defuse(@), !.c.path = "upstream_failed"]
         IN ReturnOk(notify_inflight_waiters(w1, c.dedupe_hash, resp_bytes), resp_bytes)
    ELSE StartActions(w, RaFrame(d.response_actions_on_miss, None,
                                 d.response_matchers, d.rule_name,
                                 c.cfg.settings.response_jump_limit, "hp_err"))

\* Decision::Forward arm of handle_packet up to its first await
\* a saved response is taken whatever the decision says
ReuseAlways(allow_reuse, reused_response) == reused_response # None

\* if allow_reuse { if let Some(ctx) = reused_response.take() { Ok(ctx.raw) } .. }
MayReuse(allow_reuse, reused_response) == allow_reuse /\ reused_response # None

\* bookkeeping of the forward arm: after a Continue whose re-walk decided
\* Forward in the same pipeline, whether the decision allows reuse, whether a
\* response was saved and whether forward_upstream is called
Rewalked(w, called) ==
    IF ~w.c.rewalk THEN w
    ELSE [w EXCEPT !.c.rewalk = FALSE,
                   !.c.rewalks = @ \cup {[allow |-> w.c.decision.allow_reuse,
                                          saved |-> w.c.reused_response # None,
                                          registered |-> w.c.dedupe_registered,
                                          called |-> called]}]

ForwardArm(w) ==
    LET d == w.c.decision
        w0 == [Rewalked(w, ~MayReuse(d.allow_reuse, w.c.reused_response)
                            /\ (w.c.dedupe_registered
                                 \/ w.inflight[w.c.dedupe_hash] = None))
                 EXCEPT !.c.cleanup_guard = None]
    IN IF MayReuse(d.allow_reuse, w.c.reused_response)
       THEN HandleResp([w0 EXCEPT !.c.reused_response = None],
                       [kind |-> "ok", raw |-> w.c.reused_response.raw])
       ELSE IF ~w.c.dedupe_registered
       THEN IF w.inflight[w.c.dedupe_hash] # None
            THEN AwaitLeader(w0, "hp", w.c.dedupe_hash)
            ELSE AwaitUpstream(
                   [ClaimSlot(w0, w.c.dedupe_hash) EXCEPT
                       !.c.dedupe_registered = TRUE,
                       !.c.cleanup_guard = Guard(w.c.dedupe_hash)],
                   "hp", d.upstream)
       ELSE AwaitUpstream(w0, "hp", d.upstream)

DecisionLoop(w, decision) ==
    LET w1 == ResolveJumps(w, decision, 0)
    IN IF w1.c.decision.kind = "static" THEN StaticArm(w1) ELSE ForwardArm(w1)

\* ResponseActionResult
RaUpstream(ctx, resp_match) == [kind |-> "upstream", ctx |-> ctx, resp_match |-> resp_match]

RaStatic(bytes, rcode) == [kind |-> "static", bytes |-> bytes, rcode |-> rcode]

RaJump(pipeline, remaining_jumps) ==
    [kind |-> "jump", pipeline |-> pipeline, remaining_jumps |-> remaining_jumps]

RaContinue(ctx) == [kind |-> "continue", ctx |-> ctx]

\* the result of apply_response_actions goes back to its caller
RaReturn(w, result) == Goto(w, "action_result", result)

RECURSIVE apply_response_actions(_)
\* Engine::apply_response_actions from action i on, up to its return or to the
\* forward_upstream await of a Forward action
apply_response_actions(w) ==
    LET f == w.c.ra
        packet == w.c.packet
        servfail == RaStatic(build_response(packet, "ServFail", <<>>), "ServFail")
        with_ctx == IF f.ctx_opt # None
                    THEN RaUpstream(f.ctx_opt, RespMatch(f.response_matchers, f.ctx_opt))
                    ELSE servfail
    IN IF f.i > Len(f.actions) THEN RaReturn(w, with_ctx)
       ELSE LET a == f.actions[f.i] IN
         CASE a.type = "log" -> apply_response_actions([w EXCEPT !.c.ra.i = @ + 1])
           [] a.type = "static_response" ->
                RaReturn(w, RaStatic(build_response(packet, RcodeOrNx(a.arg), <<>>),
                                     RcodeOrNx(a.arg)))
           [] a.type = "static_ip_response" ->
                LET r == make_static_ip_answer(w.c.q.qname, a.arg)
                IN RaReturn(w, RaStatic(build_response(packet, r.rcode, r.answers), r.rcode))
           [] a.type = "jump_to_pipeline" ->
                IF f.remaining_jumps = 0 THEN RaReturn(w, servfail)
                ELSE RaReturn(w, RaJump(a.arg, f.remaining_jumps - 1))
           [] a.type = "allow" -> RaReturn(w, with_ctx)
           [] a.type = "deny" ->
                RaReturn(w, RaStatic(build_response(packet, "Refused", <<>>), "Refused"))
           [] a.type = "continue" -> RaReturn(w, RaContinue(f.ctx_opt))
           [] OTHER ->
                IF ForwardLimitExceeded(f.forward_attempts + 1)
                THEN RaReturn([w EXCEPT !.c.ra_forwards = @ + 1], servfail)
                ELSE LET upstream_addr ==
                             IF a.arg # "" THEN a.arg
                             ELSE IF f.ctx_opt # None THEN f.ctx_opt.upstream
                             ELSE w.c.cfg.settings.default_upstream
                     IN AwaitUpstream(
                          [w EXCEPT !.c.ra.forward_attempts = @ + 1,
                                    !.c.ra.upstream_addr = upstream_addr,
                                    !.c.ra_forwards = @ + 1, !.c.ra_calls = @ + 1],
                          "ra", upstream_addr)

\* the Forward action of apply_response_actions after its await
RaForwarded(w, resp) ==
    IF resp.kind = "err"
    THEN RaReturn(w, RaStatic(build_response(w.c.packet, "ServFail", <<>>), "ServFail"))
    ELSE IF ~Parses(resp.raw) THEN ReturnErr(w)
    ELSE Goto([w EXCEPT !.c.ra.ctx_opt = ResponseContext(resp.raw, w.c.ra.upstream_addr),
                        !.c.ra.i = @ + 1],
              "apply_response_actions", None)

\* ResponseActionResult::Continue in handle_packet: the guard is defused and goes
\* out of scope, the rule is skipped and the pipeline walked again
HpContinue(w, ctx) ==
    LET c == w.c
        skip_rules == c.skip_rules \cup {c.decision.rule_name}
        pipeline == FindPipeline(c.cfg, c.current_pipeline_id)
        r == apply_rules(w.rule_cache, w.compiled, c.cfg, pipeline, c.q, skip_rules)
    IN Goto([Applied(w, r, pipeline, skip_rules) EXCEPT
                      !.c.cleanup_guard = None,
                      !.c.reused_response = ctx,
                      !.c.skip_rules = skip_rules,
                      !.c.continues = Bump(@),
                      !.c.rewalk = TRUE,
                      !.c.ra = None],
            "decision_loop", r.decision)

\* process_response_jump(..).await returned Ok(resp_bytes) to handle_packet
PjReturn(w, resp_bytes) ==
    LET from == w.c.pj.from
        w1 == [w EXCEPT !.c.pj = None,
                        !.c.cleanup_guard = IF from = "hp_ok" THEN Defuse(@) ELSE @]
    IN ReturnOk(notify_inflight_waiters(w1, w.c.dedupe_hash, resp_bytes), resp_bytes)

\* match action_result { .. } of handle_packet, in the Ok(raw) branch (from
\* "hp_ok") and in the Err(err) branch (from "hp_err")
HpAfterRa(w, result) ==
    LET c == w.c
        from == c.ra.from
        min_ttl == c.cfg.settings.min_ttl
        w0 == [w EXCEPT !.c.ra = None, !.c.path = "response_action"]
    IN CASE result.kind = "upstream" ->
              LET ctx == result.ctx
                  effective_ttl == Max(extract_ttl(ctx.raw), min_ttl)
                  w1 == CacheInsertIf(w0,
                            (from = "hp_ok" \/ result.resp_match) /\ effective_ttl > 0,
                            c.dedupe_hash,
                            CacheEntry(ctx.raw, ctx.raw.body.rcode, ctx.upstream,
                                       c.q.qname, c.pipeline_id, c.q.qtype),
                            effective_ttl)
                  w2 == IF from = "hp_ok" THEN [w1 EXCEPT !.c.cleanup_guard = Defuse(@)]
                        ELSE w1
              IN ReturnOk(notify_inflight_waiters(w2, c.dedupe_hash, ctx.raw), ctx.raw)
         [] result.kind = "static" ->
              LET w1 == CacheInsertIf(w0, from = "hp_ok" /\ min_ttl > 0, c.dedupe_hash,
                            CacheEntry(result.bytes, result.rcode, "response_action",
                                       c.q.qname, c.current_pipeline_id, c.q.qtype),
                            min_ttl)
                  w2 == IF from = "hp_ok" THEN [w1 EXCEPT !.c.cleanup_guard = Defuse(@)]
                        ELSE w1
              IN ReturnOk(notify_inflight_waiters(w2, c.dedupe_hash, result.bytes),
                          result.bytes)
         [] result.kind = "jump" ->
              Goto([w0 EXCEPT !.c.pj = PjFrame(result.pipeline, result.remaining_jumps,
                                               from)],
                   "process_response_jump", None)
         [] OTHER -> HpContinue(w, result.ctx)

\* the terminal exits of process_response_jump: every guard defused, every
\* claimed hash notified, Ok(bytes) returned
PjFinish(w, bytes) ==
    LET f == w.c.pj
        w1 == [w EXCEPT !.c.pj.cleanup_guards = DefuseAll(@), !.c.ra = None]
    IN PjReturn(NotifyAll(w1, f.inflight_hashes, 1, bytes), bytes)

\* match resp { .. } of process_response_jump
PjResp(w, resp) ==
    LET c == w.c
        f == c.pj
        d == f.decision
        min_ttl == c.cfg.settings.min_ttl
    IN IF resp.kind = "err"
       THEN PjFinish(w, build_response(c.packet, "ServFail", <<>>))
       ELSE IF ~Parses(resp.raw) THEN ReturnErr(w)
       ELSE
       LET raw == resp.raw
           ctx == ResponseContext(raw, d.upstream)
           effective_ttl == Max(extract_ttl(raw), min_ttl)
           resp_match_ok == RespMatch(d.response_matchers, ctx)
           actions_to_run ==
               IF d.response_actions_on_match # <<>> \/ d.response_actions_on_miss # <<>>
               THEN IF resp_match_ok THEN d.response_actions_on_match
                    ELSE d.response_actions_on_miss
               ELSE <<>>
       IN IF actions_to_run = <<>>
          THEN PjFinish(CacheInsertIf(w, resp_match_ok /\ effective_ttl > 0, f.dedupe_hash,
                            CacheEntry(raw, raw.body.rcode, d.upstream, c.q.qname,
                                       f.pipeline_id, c.q.qtype), effective_ttl),
                        raw)
          ELSE StartActions(w, RaFrame(actions_to_run, ctx, d.response_matchers,
                                       d.rule_name, f.remaining_jumps, "pj"))

\* match decision { .. } of process_response_jump, up to its first await
PjDecision(w, decision) ==
    LET c == w.c
        f == c.pj
    IN IF decision.kind = "static"
       THEN LET resp_bytes == build_response(c.packet, decision.rcode, decision.answers)
            IN PjFinish(CacheInsert(w, f.dedupe_hash,
                            CacheEntry(resp_bytes, decision.rcode, "static", c.q.qname,
                                       f.pipeline_id, c.q.qtype),
                            c.cfg.settings.min_ttl),
                        resp_bytes)
       ELSE LET w0 == [w EXCEPT !.c.pj.decision = decision] IN
            IF decision.allow_reuse /\ f.reused_response # None
            THEN PjResp([w0 EXCEPT !.c.pj.reused_response = None],
                        [kind |-> "ok", raw |-> f.reused_response.raw])
            ELSE IF w.inflight[f.dedupe_hash] # None
            THEN AwaitLeader(w0, "pj", f.dedupe_hash)
            ELSE AwaitUpstream(
                   [ClaimSlot(w0, f.dedupe_hash) EXCEPT
                       !.c.pj.cleanup_guards = Append(@, Guard(f.dedupe_hash)),
                       !.c.pj.inflight_hashes = Append(@, f.dedupe_hash)],
                   "pj", decision.upstream)

RECURSIVE PjNested(_, _, _)
\* "Resolve nested rule-level jumps first"
PjNested(w, decision, local_jumps) ==
    LET c == w.c
        servfail == build_response(c.packet, "ServFail", <<>>)
    IN IF decision.kind = "jump"
       THEN IF local_jumps = 0 THEN PjFinish(w, servfail)
            ELSE LET w1 == [w EXCEPT !.c.pj.pipeline_id = decision.pipeline]
                     next_pipeline == FindPipeline(c.cfg, decision.pipeline)
                 IN IF next_pipeline = None
                    THEN PjFinish([w1 EXCEPT !.c.missing_jump = "nested"], servfail)
                    ELSE LET r == apply_rules(w.rule_cache, w.compiled, c.cfg,
                                              next_pipeline, c.q, {})
                         IN PjNested([Applied(w1, r, next_pipeline, {}) EXCEPT
                                                !.c.pj.skip_rules = {},
                                                !.c.transitions = Bump(@)],
                                     r.decision, local_jumps - 1)
       ELSE PjDecision([w EXCEPT !.c.pj.remaining_jumps = local_jumps], decision)

\* top of the loop of process_response_jump
process_response_jump(w) ==
    LET c == w.c
        f == c.pj
        servfail == build_response(c.packet, "ServFail", <<>>)
        pipeline == FindPipeline(c.cfg, f.pipeline_id)
    IN IF f.remaining_jumps = 0 THEN PjFinish(w, servfail)
       ELSE IF pipeline = None
       THEN PjFinish([w EXCEPT !.c.missing_jump = "response"], servfail)
       ELSE LET r == apply_rules(w.rule_cache, w.compiled, c.cfg, pipeline, c.q,
                                 f.skip_rules)
            IN PjNested(
                 [Applied(w, r, pipeline, f.skip_rules) EXCEPT
                           !.c.pj.dedupe_hash =
                               calculate_cache_hash_for_dedupe(
                                   f.pipeline_id, c.q.qname, c.q.qtype),
                           !.c.pj.jumped = FALSE,
                           !.c.transitions = IF f.jumped THEN Bump(@) ELSE @],
                 r.decision, f.remaining_jumps)

\* match action_result { .. } of process_response_jump
PjAfterRa(w, result) ==
    LET c == w.c
        f == c.pj
        min_ttl == c.cfg.settings.min_ttl
        w0 == [w EXCEPT !.c.ra = None]
    IN CASE result.kind = "upstream" ->
              LET ctx == result.ctx
                  effective_ttl == Max(extract_ttl(ctx.raw), min_ttl)
              IN PjFinish(CacheInsertIf(w0, result.resp_match /\ effective_ttl > 0,
                              f.dedupe_hash,
                              CacheEntry(ctx.raw, ctx.raw.body.rcode, ctx.upstream,
                                         c.q.qname, f.pipeline_id, c.q.qtype),
                              effective_ttl),
                          ctx.raw)
         [] result.kind = "static" -> PjFinish(w0, result.bytes)
         [] result.kind = "jump" ->
              Goto([w0 EXCEPT !.c.pj.pipeline_id = result.pipeline,
                              !.c.pj.remaining_jumps = result.remaining_jumps,
                              !.c.pj.jumped = TRUE],
                   "process_response_jump", None)
         [] OTHER ->
              Goto([w0 EXCEPT !.c.pj.reused_response = result.ctx,
                              !.c.pj.skip_rules = @ \cup {f.decision.rule_name},
                              !.c.continues = Bump(@)],
                   "process_response_jump", None)

\* rx.await of handle_packet resolved: the leader's bytes with the own id in the
\* first two bytes, or the sender was dropped and the call forwards on its own
HpFollowed(w, msg) ==
    IF msg.kind = "bytes"
    THEN ReturnOk([w EXCEPT !.c.path = "follower"], RewriteId(msg.bytes, w.c.q.tx_id))
    ELSE AwaitUpstream([w EXCEPT !.c.retried = TRUE], "hp", w.c.decision.upstream)

\* rx.await of process_response_jump resolved
PjFollowed(w, msg) ==
    LET f == w.c.pj IN
    IF msg.kind = "bytes"
    THEN LET w1 == [w EXCEPT !.c.pj.cleanup_guards = DefuseAll(@), !.c.path = "follower"]
         IN PjReturn(NotifyAll(w1, f.inflight_hashes, 1, msg.bytes),
                     RewriteId(msg.bytes, w.c.packet.tx_id))
    ELSE AwaitUpstream([w EXCEPT !.c.retried = TRUE], "pj", f.decision.upstream)

\* the validation fields of an L2 entry that answered a request
L2Use(hit) == [pipeline_id |-> hit.pipeline_id, qname |-> hit.qname, qtype |-> hit.qtype]

\* Engine::handle_packet from its entry to its first await or return; cfg is the
\* snapshot pipeline.load() returns at entry
handle_packet(w, cfg) ==
    LET packet == w.c.packet
        q == parse_quick(packet)
        sel == select_pipeline(cfg, ListenerLabel, q)
        dedupe_hash == calculate_cache_hash_for_dedupe(sel.id, q.qname, q.qtype)
        hit == CacheProbe(w.cache, sel.id, q.qname, q.qtype)
        w0 == [w EXCEPT !.c.cfg = cfg, !.c.q = q, !.c.pipeline_id = sel.id,
                        !.c.current_pipeline_id = sel.id,
                        !.c.dedupe_hash = dedupe_hash,
                        !.c.l2_rejected = hit = None /\ w.cache[dedupe_hash] # None]
    IN IF hit # None
       THEN ReturnOk([w0 EXCEPT !.c.path = "cache_hit", !.c.l2_used = L2Use(hit)],
                     RewriteId(hit.bytes, q.tx_id))
       ELSE IF sel.pipeline = None THEN DecisionLoop(w0, DefaultForward(cfg))
       ELSE LET r == apply_rules(w.rule_cache, w.compiled, cfg, sel.pipeline, q, {})
            IN DecisionLoop(Applied(w0, r, sel.pipeline, {}), r.decision)

\* the place of the code a segment goes on at
Step(w) ==
    LET k == w.k
        w0 == [w EXCEPT !.k = None]
    IN CASE k.op = "apply_response_actions" -> apply_response_actions(w0)
         [] k.op = "process_response_jump" -> process_response_jump(w0)
         [] k.op = "decision_loop" -> DecisionLoop(w0, k.arg)
         [] OTHER -> IF w0.c.ra.from = "pj" THEN PjAfterRa(w0, k.arg)
                     ELSE HpAfterRa(w0, k.arg)

RECURSIVE RunToAwait(_)
\* the running call runs on to its next await or to its return
RunToAwait(w) == IF w.k = None THEN w ELSE RunToAwait(Step(w))

(***************************************************************************)
(* Configurations and requests of the model                                *)
(***************************************************************************)

Chars(s) ==
    CASE s = "a.x" -> <<"a", ".", "x">>
      [] s = "A.x" -> <<"A", ".", "x">>
      [] s = "b.x" -> <<"b", ".", "x">>
      [] OTHER -> <<>>

\* a forward rule whose response must be NOERROR, with actions for the other case
FwdRule(name, matchers, onmiss) ==
    RuleOf(name, matchers, <<AForward>>, <<RmRcode("NOERROR")>>, <<>>, onmiss)

\* one plain forwarding rule
CfgForward == ConfigOf(0, <<PipelineOf("p1", <<SimpleRule("r1", <<MAny>>, <<ALog, AForward>>)>>)>>)

\* as CfgForward with a cache floor, so that every answer is cached
CfgForwardTtl == ConfigOf(30, <<PipelineOf("p1", <<SimpleRule("r1", <<MAny>>, <<AForward>>)>>)>>)

\* forward, and on a response that is not NOERROR continue to a static rule
CfgContinueStatic ==
    ConfigOf(0, <<PipelineOf("p1",
        <<FwdRule("r1", <<MAny>>, <<AContinue>>),
          SimpleRule("r2", <<MAny>>, <<AStatic("NXDOMAIN")>>)>>)>>)

\* two pipelines that jump to each other
CfgCycle ==
    ConfigOf(0, <<PipelineOf("p1", <<SimpleRule("r1", <<MAny>>, <<AJump("p2")>>)>>),
                  PipelineOf("p2", <<SimpleRule("r1", <<MAny>>, <<AJump("p1")>>)>>)>>)

\* a cycle that only queries of class CH enter; other queries are forwarded
CfgClassCycle ==
    ConfigOf(0, <<PipelineOf("p1",
        <<SimpleRule("r1", <<MQclass("CH")>>, <<AJump("p2")>>),
          SimpleRule("r2", <<MAny>>, <<AForward>>)>>),
                  PipelineOf("p2", <<SimpleRule("r1", <<MAny>>, <<AJump("p1")>>)>>)>>)

\* jumps to a pipeline that does not exist, from a rule and from a response action
CfgMissing ==
    ConfigOf(0, <<PipelineOf("p1",
        <<SimpleRule("r1", <<MQclass("CH")>>, <<AJump("p3")>>),
          FwdRule("r2", <<MAny>>, <<AJump("p3")>>)>>)>>)

\* forward, on a miss continue to a rule that jumps back to the same pipeline
CfgContinueJump ==
    ConfigOf(0, <<PipelineOf("p1",
        <<FwdRule("r1", <<MAny>>, <<AContinue>>),
          SimpleRule("r2", <<MAny>>, <<AJump("p1")>>)>>)>>)

\* a rule jump, then a response-phase jump into a pipeline that forwards,
\* continues and reuses the response
CfgResponseJump ==
    ConfigOf(0, <<PipelineOf("p1", <<SimpleRule("r1", <<MAny>>, <<AJump("p2")>>)>>),
                  PipelineOf("p2", <<FwdRule("r1", <<MAny>>, <<AJump("p4")>>)>>),
                  PipelineOf("p4",
                      <<FwdRule("r1", <<MAny>>, <<AContinue>>),
                        SimpleRule("r2", <<MAny>>, <<AAllow>>)>>)>>)

\* two rule jumps, then a response-phase jump back into the second pipeline
CfgLongJump ==
    ConfigOf(0, <<PipelineOf("p1", <<SimpleRule("r1", <<MAny>>, <<AJump("p2")>>)>>),
                  PipelineOf("p2", <<SimpleRule("r1", <<MAny>>, <<AJump("p4")>>)>>),
                  PipelineOf("p4", <<FwdRule("r1", <<MAny>>, <<AJump("p2")>>)>>)>>)

\* every query is answered by a static rule; static answers are cached
CfgStatic ==
    ConfigOf(30, <<PipelineOf("p1",
        <<SimpleRule("r1", <<MAny>>, <<AStaticIp("10.9.9.9")>>)>>)>>)

\* a response-phase jump into a pipeline that answers statically; nothing is cacheable
CfgJumpStatic ==
    ConfigOf(0, <<PipelineOf("p1", <<FwdRule("r1", <<MAny>>, <<AJump("p2")>>)>>),
                  PipelineOf("p2", <<SimpleRule("r1", <<MAny>>, <<AStaticIp("10.9.9.9")>>)>>)>>)

\* five Forward actions in one response action list
CfgFiveForwards ==
    ConfigOf(0, <<PipelineOf("p1",
        <<FwdRule("r1", <<MAny>>, <<AForward, AForward, AForward, AForward, AForward>>)>>)>>)

\* response actions that forward again, and a static rule for class CH
CfgReforward ==
    ConfigOf(0, <<PipelineOf("p1",
        <<SimpleRule("r1", <<MQclass("CH")>>, <<AStaticIp("10.9.9.9")>>),
          FwdRule("r2", <<MAny>>, <<AForwardTo("8.8.8.8:53"), AAllow>>)>>)>>)

\* a response-phase jump back into the pipeline that forwarded
CfgSelfJump ==
    ConfigOf(0, <<PipelineOf("p1", <<FwdRule("r1", <<MAny>>, <<AJump("p1")>>)>>)>>)

\* forward, on a miss continue to a rule that allows
CfgContinueAllow ==
    ConfigOf(0, <<PipelineOf("p1",
        <<FwdRule("r1", <<MAny>>, <<AContinue>>),
          SimpleRule("r2", <<MAny>>, <<AAllow>>)>>)>>)

\* forward, on a miss continue to a rule that forwards
CfgContinueForward ==
    ConfigOf(0, <<PipelineOf("p1",
        <<FwdRule("r1", <<MAny>>, <<AContinue>>),
          SimpleRule("r2", <<MAny>>, <<AForward>>)>>)>>)

Configs ==
    { CfgContinueAllow, CfgContinueForward, CfgForward, CfgForwardTtl, CfgContinueStatic, CfgCycle, CfgClassCycle, CfgMissing,
      CfgContinueJump, CfgResponseJump, CfgLongJump, CfgStatic, CfgJumpStatic,
      CfgFiveForwards, CfgReforward, CfgSelfJump }

\* compile_pipelines: the compiled pipelines carry the rules they were built from
compile_pipelines(cfg) == cfg.pipelines

ClientIp == "10.0.0.1"

\* a second client, whose rule-cache keys collide with those of the first
OtherClientIp == "10.0.0.8"

\* the queries clients send: record types A (1) and MX (15), classes IN and CH
Questions ==
    { [qname |-> Chars("a.x"), qtype |-> 1, qclass |-> "IN", client_ip |-> ClientIp],
      [qname |-> Chars("a.x"), qtype |-> 1, qclass |-> "CH", client_ip |-> ClientIp],
      [qname |-> Chars("a.x"), qtype |-> 15, qclass |-> "IN", client_ip |-> ClientIp],
      [qname |-> Chars("A.x"), qtype |-> 1, qclass |-> "IN", client_ip |-> ClientIp],
      [qname |-> Chars("a.x"), qtype |-> 1, qclass |-> "IN", client_ip |-> OtherClientIp] }

\* the transaction id of the packet of call c
TxId(c) == 4096 + c

Packet(c, question) ==
    [tx_id |-> TxId(c), qname |-> question.qname, qtype |-> question.qtype,
     qclass |-> question.qclass, client_ip |-> question.client_ip, rd |-> TRUE]

(***************************************************************************)
(* State                                                                   *)
(***************************************************************************)

VARIABLES
    pipeline,            \* Engine.pipeline: the configuration in force
    compiled_pipelines,  \* Engine.compiled_pipelines
    cache,               \* Engine.cache (L2), by hash
    rule_cache,          \* Engine.rule_cache (L1), by hash
    inflight,            \* Engine.inflight, by hash: the waiters of a slot
    chan,                \* the receiving end of the channel a call is blocked on
    calls,               \* the requests: position and locals of each
    watcher,             \* the watcher thread: position, locals and last log line
    probe                \* functions called on their own: arguments, locals, result

vars ==
    <<pipeline, compiled_pipelines, cache, rule_cache, inflight, chan, calls, watcher,
      probe>>

Calls == 1..NumCalls

Hashes == 0..(HashSpace - 1)

\* a request that has not arrived yet
IdleCall ==
    [pc |-> "idle", site |-> "", packet |-> None, q |-> None, cfg |-> None,
     pipeline_id |-> "", current_pipeline_id |-> "", dedupe_hash |-> 0,
     dedupe_registered |-> FALSE, skip_rules |-> {}, reused_response |-> None,
     decision |-> None, cleanup_guard |-> None, upstream_addr |-> "",
     ra |-> None, pj |-> None, result |-> None, path |-> "", followed |-> 0,
     leader |-> 0,
     retried |-> FALSE, request_jumps |-> 0, transitions |-> 0,
     upstream_calls |-> 0, continues |-> 0, ordered |-> TRUE, l1_used |-> {},
     l2_used |-> None, missing_jump |-> "", l2_rejected |-> FALSE,
     outcome |-> "", last_ra |-> None, inserted_ttls |-> {},
     ra_forwards |-> 0, ra_calls |-> 0, rewalk |-> FALSE, rewalks |-> {}]

\* the locals of a finished call are gone; what it was asked and what it answered stay
Tidy(c) ==
    IF c.pc # "done" THEN c
    ELSE [IdleCall EXCEPT !.pc = "done", !.packet = c.packet, !.q = c.q,
                          !.cfg = c.cfg, !.pipeline_id = c.pipeline_id,
                          !.result = c.result, !.path = c.path,
                          !.followed = c.followed, !.leader = c.leader,
                          !.retried = c.retried,
                          !.request_jumps = c.request_jumps,
                          !.transitions = c.transitions,
                          !.upstream_calls = c.upstream_calls,
                          !.continues = c.continues, !.ordered = c.ordered,
                          !.l1_used = c.l1_used, !.l2_used = c.l2_used,
                          !.missing_jump = c.missing_jump,
                          !.l2_rejected = c.l2_rejected,
                          !.outcome = c.outcome, !.last_ra = c.last_ra,
                          !.inserted_ttls = c.inserted_ttls,
                          !.ra_forwards = c.ra_forwards, !.ra_calls = c.ra_calls,
                          !.rewalks = c.rewalks]

World(c) ==
    [cache |-> cache, rule_cache |-> rule_cache, inflight |-> inflight, chan |-> chan,
     compiled |-> compiled_pipelines, me |-> c, c |-> calls[c], k |-> None]

\* let mut retries = 3
WatcherRetries == 3

\* run_watcher after watcher.watch: blocked in `for res in rx`
WatcherStarted ==
    [pc |-> "recv", retries |-> 0, stores |-> 0, failures |-> 0, log |-> "started"]

\* Ok(_event): the retry loop is entered
EventReceived(wt) ==
    [pc |-> "load", retries |-> WatcherRetries, stores |-> 0, failures |-> 0,
     log |-> wt.log]

\* the loop goes on after a store
ReloadedNoBreak(wt) ==
    [wt EXCEPT !.stores = @ + 1, !.log = "reloaded"]

\* Ok(new_cfg) of an attempt: after pipeline.store, log and break
Reloaded(wt) ==
    [wt EXCEPT !.pc = "recv", !.stores = @ + 1, !.log = "reloaded"]

\* Err(err) of an attempt: retries -= 1, then warn or sleep; the loop runs
\* while retries > 0
AttemptFailed(wt) ==
    LET retries == wt.retries - 1
    IN [wt EXCEPT !.retries = retries, !.failures = @ + 1,
                  !.pc = IF retries > 0 THEN "load" ELSE "recv",
                  !.log = IF retries = 0 THEN "reload_failed" ELSE @]

Commit(w) ==
    /\ cache' = w.cache
    /\ rule_cache' = w.rule_cache
    /\ inflight' = w.inflight
    /\ chan' = w.chan
    /\ calls' = [calls EXCEPT ![w.me] = Tidy(w.c)]
    /\ UNCHANGED <<pipeline, compiled_pipelines, watcher, probe>>

Init ==
    /\ pipeline \in Configs
    /\ compiled_pipelines = compile_pipelines(pipeline)
    /\ cache = [h \in Hashes |-> None]
    /\ rule_cache = [h \in Hashes |-> None]
    /\ inflight = [h \in Hashes |-> None]
    /\ chan = [c \in Calls |-> None]
    /\ calls = [c \in Calls |-> IdleCall]
    /\ watcher = WatcherStarted
    /\ probe = None

\* requests arrive in the order of their numbers
MayArrive(c) ==
    /\ calls[c].pc = "idle"
    /\ \A b \in Calls : b < c => calls[b].pc # "idle"

\* a datagram arrives at a UDP worker: handle_packet_fast answers it, or a task
\* running handle_packet is spawned
UdpArrive(c, question) ==
    /\ MayArrive(c)
    /\ LET packet == Packet(c, question)
           fast == handle_packet_fast(pipeline, compiled_pipelines, cache, rule_cache,
                                      packet)
           r == FastPath(pipeline, compiled_pipelines, cache, rule_cache, packet)
           pipeline_id == select_pipeline(pipeline, ListenerLabel, parse_quick(packet)).id
           arrived == [calls[c] EXCEPT !.packet = packet, !.q = parse_quick(packet)]
       IN calls' = [calls EXCEPT ![c] =
                      IF fast = None THEN [arrived EXCEPT !.pc = "hp"]
                      ELSE Tidy([arrived EXCEPT
                              !.pc = "done", !.path = r.phase,
                              !.pipeline_id = pipeline_id,
                              !.cfg = pipeline,
                              !.l2_used = IF r.phase = "cache_hit" THEN L2Use(r.used) ELSE @,
                              !.l1_used =
                                  IF r.phase = "rule_cache_hit"
                                  THEN {[pipeline_id |-> pipeline_id,
                                         entry_pipeline_id |-> r.used.pipeline_id,
                                         entry_client_ip |-> r.used.client_ip,
                                         entry_qname_hash |-> r.used.qname_hash,
                                         entry_decision |-> r.used.decision]}
                                  ELSE @,
                              !.result = [kind |-> "ok", bytes |-> fast]])]
    /\ UNCHANGED <<pipeline, compiled_pipelines, cache, rule_cache, inflight, chan, watcher,
                   probe>>

\* a framed query arrives on a TCP connection: handle_packet is called directly
TcpArrive(c, question) ==
    /\ MayArrive(c)
    /\ calls' = [calls EXCEPT ![c] =
                   [@ EXCEPT !.pc = "hp", !.packet = Packet(c, question),
                             !.q = parse_quick(Packet(c, question))]]
    /\ UNCHANGED <<pipeline, compiled_pipelines, cache, rule_cache, inflight, chan, watcher,
                   probe>>

\* handle_packet runs from its entry to its first await or return
HpStart(c) ==
    /\ calls[c].pc = "hp"
    /\ Commit(RunToAwait(handle_packet(World(c), pipeline)))

\* the id the upstream client gives the send of call c: ids of sends in flight at
\* the same time differ
PoolId(c) == c - 1

\* forward_upstream returns to the call site that awaits it
UpstreamDone(c, o) ==
    /\ calls[c].pc = "upstream"
    /\ LET w == [World(c) EXCEPT !.c.outcome = o.kind, !.c.last_ra = None]
           resp == IF o.kind = "fail" THEN [kind |-> "err"]
                   ELSE [kind |-> "ok",
                         raw |-> UpstreamBytes(calls[c].packet, calls[c].upstream_addr,
                                               o, PoolId(c))]
       IN Commit(RunToAwait(CASE calls[c].site = "hp" -> HandleResp(w, resp)
                              [] calls[c].site = "ra" -> RaForwarded(w, resp)
                              [] OTHER -> PjResp(w, resp)))

\* rx.await resolves: the leader sent bytes, or the sender was dropped
RxDone(c) ==
    /\ calls[c].pc = "await"
    /\ chan[c] # Pending
    /\ LET w == [World(c) EXCEPT !.chan[c] = None]
       IN Commit(RunToAwait(IF calls[c].site = "hp" THEN HpFollowed(w, chan[c])
                            ELSE PjFollowed(w, chan[c])))

\* the locals of a returning call are dropped: active cleanup guards remove
\* their slot
Exit(c) ==
    /\ calls[c].pc = "exit"
    /\ LET w == DropGuards(World(c), GuardsToDrop(calls[c]), 1)
       IN Commit([w EXCEPT !.c.pc = "done"])

\* the steps of the calls that have arrived
Run(c) ==
    \/ HpStart(c)
    \/ \E o \in UpstreamOutcomes : UpstreamDone(c, o)
    \/ RxDone(c)
    \/ Exit(c)

\* Requests of the wide specification: any configuration, any question
WideCalls == 2

Next ==
    \/ \E c \in 1..WideCalls : \E question \in Questions :
          UdpArrive(c, question) \/ TcpArrive(c, question)
    \/ \E c \in Calls : Run(c)

\* every configuration, two requests with any of the questions
Spec == Init /\ [][Next]_vars

\* the question all requests of the single-flight specification ask
FlightQuestions ==
    { [qname |-> Chars("a.x"), qtype |-> 1, qclass |-> "IN", client_ip |-> ClientIp] }

\* the configurations of the single-flight specification
FlightConfigs == { CfgForward, CfgContinueStatic, CfgMissing }

InitFlight ==
    /\ Init
    /\ pipeline \in FlightConfigs

NextFlight ==
    \/ \E c \in Calls : \E question \in FlightQuestions :
          UdpArrive(c, question) \/ TcpArrive(c, question)
    \/ \E c \in Calls : Run(c)

\* NumCalls requests for the same name and type, which share their fingerprint
SpecFlight == InitFlight /\ [][NextFlight]_vars

\* the watcher receives a change event for the configuration file
RxEvent ==
    /\ watcher.pc = "recv"
    /\ watcher' = EventReceived(watcher)
    /\ UNCHANGED <<pipeline, compiled_pipelines, cache, rule_cache, inflight, chan, calls,
                   probe>>

\* the watcher receives an error from the notification backend
RxError ==
    /\ watcher.pc = "recv"
    /\ watcher' = [watcher EXCEPT !.log = "event_error"]
    /\ UNCHANGED <<pipeline, compiled_pipelines, cache, rule_cache, inflight, chan, calls,
                   probe>>

\* an attempt loads and compiles the file, which holds new_cfg at that moment
LoadSucceeds(new_cfg) ==
    /\ watcher.pc = "load"
    /\ pipeline' = new_cfg
    /\ watcher' = Reloaded(watcher)
    /\ UNCHANGED <<compiled_pipelines, cache, rule_cache, inflight, chan, calls, probe>>

\* an attempt finds the file unreadable, half written or invalid
LoadFails ==
    /\ watcher.pc = "load"
    /\ watcher' = AttemptFailed(watcher)
    /\ UNCHANGED <<pipeline, compiled_pipelines, cache, rule_cache, inflight, chan, calls,
                   probe>>

\* the configurations the file holds over time
ReloadConfigs == { CfgForward, CfgStatic }

\* Requests of the reload specification
ReloadCalls == 2

InitReload ==
    /\ Init
    /\ pipeline \in ReloadConfigs

NextReload ==
    \/ RxEvent
    \/ RxError
    \/ \E new_cfg \in ReloadConfigs : LoadSucceeds(new_cfg)
    \/ LoadFails
    \/ \E c \in 1..ReloadCalls : \E question \in FlightQuestions :
          UdpArrive(c, question) \/ TcpArrive(c, question)
    \/ \E c \in Calls : Run(c)

\* the watcher thread next to two requests for the same name
SpecReload == InitReload /\ [][NextReload]_vars

(***************************************************************************)
(* Functions called on their own                                           *)
(***************************************************************************)

SelectRule(pipeline_id, matchers) ==
    [pipeline |-> pipeline_id, matchers |-> matchers, matcher_operator |-> "and"]

\* selectors on the class, on anything (naming a pipeline the config lacks), on
\* the listener and on a suffix for all clients but one
SelectRules ==
    { SelectRule("p2", <<MQclass("CH")>>),
      SelectRule("p3", <<MAny>>),
      SelectRule("p1", <<Matcher("and", "listener_label", <<"E", "d", "g", "e">>)>>),
      SelectRule("p2", <<Matcher("and", "domain_suffix", <<".", "x">>),
                         Matcher("and_not", "client_ip", ClientIp)>>) }

\* the longest pipeline_select list
MaxSelectors == 2

SelectLists ==
    UNION { [1..n -> SelectRules] : n \in 0..MaxSelectors }

PipelineLists ==
    { <<>>,
      << PipelineOf("p1", <<SimpleRule("r1", <<MAny>>, <<AForward>>)>>),
         PipelineOf("p2", <<SimpleRule("r1", <<MAny>>, <<AStaticIp("10.9.9.9")>>)>>) >> }

SelectConfigs ==
    { [ConfigOf(0, ps) EXCEPT !.pipeline_select = sel] :
        ps \in PipelineLists, sel \in SelectLists }

ListenerLabels == { ListenerLabel, <<"l", "a", "n">> }

SelectProbes ==
    { [kind |-> "select_pipeline", cfg |-> cfg, listener_label |-> l,
       q |-> parse_quick(Packet(1, question)), out |-> None] :
        cfg \in SelectConfigs, l \in ListenerLabels, question \in Questions }

\* select_pipeline is called with the arguments of the probe
CallSelect ==
    /\ probe.kind = "select_pipeline" /\ probe.out = None
    /\ probe' = [probe EXCEPT !.out = select_pipeline(probe.cfg, probe.listener_label,
                                                       probe.q)]
    /\ UNCHANGED <<pipeline, compiled_pipelines, cache, rule_cache, inflight, chan, calls,
                   watcher>>

\* the longest matcher chain
MaxChain == 3

MatchOperators == { "and", "or", "and_not", "or_not" }

ChainProbes ==
    { [kind |-> "eval_match_chain", ops |-> ops, vals |-> vals, out |-> None] :
        ops \in UNION { [1..n -> MatchOperators] : n \in 0..MaxChain },
        vals \in UNION { [1..n -> BOOLEAN] : n \in 0..MaxChain } }

\* eval_match_chain is called with the chain of the probe
CallChain ==
    /\ probe.kind = "eval_match_chain" /\ probe.out = None
    /\ probe' = [probe EXCEPT !.out = ChainRun(probe.ops, probe.vals)]
    /\ UNCHANGED <<pipeline, compiled_pipelines, cache, rule_cache, inflight, chan, calls,
                   watcher>>

\* compiled rules: filed under an exact name, under a suffix, under a suffix
\* that is not their first matcher, under a record type, and not filed
IndexRules ==
    { [matchers |-> <<Matcher("and", "domain_exact", <<"a", ".", "x">>)>>],
      [matchers |-> <<Matcher("and", "domain_suffix", <<"x">>)>>],
      [matchers |-> <<MQclass("IN"), Matcher("and", "domain_suffix", <<"a", ".", "x">>)>>],
      [matchers |-> <<Matcher("and", "query_type", 1)>>],
      [matchers |-> <<Matcher("and", "domain_suffix", <<>>)>>],
      [matchers |-> <<Matcher("and", "domain_suffix", <<"x">>), Matcher("or", "qclass", "CH")>>] }

\* the most rules of a compiled pipeline
MaxRules == 4

CandidateProbes ==
    { [kind |-> "get_candidates", rules |-> rules, qname |-> qname, qtype |-> qtype,
       out |-> None] :
        rules \in UNION { [1..n -> IndexRules] : n \in 0..MaxRules },
        qname \in { <<"a", ".", "x">>, <<"b", ".", "x">> },
        qtype \in { 1, 15 } }

\* the index of the probe's rules is built and asked for candidates; an empty
\* result is recorded as the empty list
CallCandidates ==
    /\ probe.kind = "get_candidates" /\ probe.out = None
    /\ probe' = [probe EXCEPT !.out =
                    [list |-> get_candidates(BuildIndex(probe.rules, Len(probe.rules)),
                                             probe.qname, probe.qtype)]]
    /\ UNCHANGED <<pipeline, compiled_pipelines, cache, rule_cache, inflight, chan, calls,
                   watcher>>

\* Duration::checked_div, on milliseconds
checked_div(dur, n) == IF n = 0 THEN None ELSE [kind |-> "some", dur |-> dur \div n]

\* hedge_timeout of forward_udp_smart
hedge_timeout(timeout_dur) ==
    LET half == checked_div(timeout_dur, 2)
    IN IF half = None THEN Max(50, timeout_dur) ELSE half.dur

\* the attempts array of forward_udp_smart
UdpAttempts(timeout_dur) == <<hedge_timeout(timeout_dur), timeout_dur>>

\* one send of forward_udp_smart that has been started
Attempt(transport, dur) == [transport |-> transport, dur |-> dur, result |-> "running"]

\* upstream_timeout values, in milliseconds
Timeouts == { 0, 60, 100, 2000 }

\* how a send can end: with the reply, or on a timeout, an I/O error or, for
\* UDP, an exhausted socket pool
SendErrors == { "timeout", "io", "pool_exhausted" }

SmartProbes ==
    { [kind |-> "forward_udp_smart", timeout_dur |-> t, pc |-> "entry", idx |-> 0,
       log |-> <<>>, out |-> None] : t \in Timeouts }

\* forward_udp_smart from its entry to the first udp_client.send(..).await
SmartEnter ==
    /\ probe.kind = "forward_udp_smart" /\ probe.pc = "entry"
    /\ probe' = [probe EXCEPT !.pc = "udp", !.idx = 1,
                     !.log = <<Attempt("udp", UdpAttempts(probe.timeout_dur)[1])>>]
    /\ UNCHANGED <<pipeline, compiled_pipelines, cache, rule_cache, inflight, chan, calls,
                   watcher>>

\* udp_client.send(..).await returns r: the reply is returned, or the next
\* attempt starts, which after the last UDP attempt is tcp_mux.send
SmartUdpDone(r) ==
    /\ probe.kind = "forward_udp_smart" /\ probe.pc = "udp"
    /\ LET attempts == UdpAttempts(probe.timeout_dur)
           log == [probe.log EXCEPT ![Len(probe.log)].result = r]
       IN probe' =
            IF r = "ok"
            THEN [probe EXCEPT !.pc = "returned", !.log = log, !.out = [kind |-> "ok"]]
            ELSE IF probe.idx = Len(attempts)
            THEN [probe EXCEPT !.pc = "tcp",
                               !.log = Append(log, Attempt("tcp", probe.timeout_dur))]
            ELSE [probe EXCEPT !.idx = @ + 1,
                               !.log = Append(log, Attempt("udp", attempts[probe.idx + 1]))]
    /\ UNCHANGED <<pipeline, compiled_pipelines, cache, rule_cache, inflight, chan, calls,
                   watcher>>

\* tcp_mux.send(..).await returns r, which forward_udp_smart returns
SmartTcpDone(r) ==
    /\ probe.kind = "forward_udp_smart" /\ probe.pc = "tcp"
    /\ probe' = [probe EXCEPT !.pc = "returned",
                     !.log = [probe.log EXCEPT ![Len(probe.log)].result = r],
                     !.out = [kind |-> IF r = "ok" THEN "ok" ELSE "err"]]
    /\ UNCHANGED <<pipeline, compiled_pipelines, cache, rule_cache, inflight, chan, calls,
                   watcher>>

\* address strings of a static_ip_response action: IPv4, IPv6 and neither
IpStrings == {"10.9.9.9", "192.0.2.1", "::1", "2001:db8::1", "not-an-ip", "10.9.9", ""}

StaticIpProbes ==
    { [kind |-> "static_ip", q |-> q, ip |-> ip, out |-> None] :
        q \in Questions, ip \in IpStrings }

\* the config with one rule that answers every question with the address
StaticIpConfig(ip) ==
    ConfigOf(30, <<PipelineOf("p1", <<SimpleRule("r1", <<MAny>>, <<AStaticIp(ip)>>)>>)>>)

\* the address given to make_static_ip_answer, to the fast path and to
\* apply_rules with empty caches
CallStaticIp ==
    /\ probe.kind = "static_ip" /\ probe.out = None
    /\ LET cfg == StaticIpConfig(probe.ip)
           compiled == compile_pipelines(cfg)
           q == parse_quick(Packet(1, probe.q))
       IN probe' = [probe EXCEPT !.out =
            [answer |-> make_static_ip_answer(q.qname, probe.ip),
             fast |-> fast_static_match(CompiledFor(compiled, "p1"), q),
             full |-> apply_rules([h \in Hashes |-> None], compiled, cfg,
                                  FirstPipeline(cfg).pipeline, q, {}).decision]]
    /\ UNCHANGED <<pipeline, compiled_pipelines, cache, rule_cache, inflight, chan, calls,
                   watcher>>

\* rules as from_config builds them: suffixes at a label boundary, with a
\* leading dot and inside a label, a chain of two matchers, and a forward
WalkRuleSet ==
    { SimpleRule("r1", <<Matcher("and", "domain_suffix", <<"x">>)>>, <<AStatic("NXDOMAIN")>>),
      SimpleRule("r2", <<Matcher("and", "domain_suffix", <<".", "x">>)>>,
                 <<AStatic("REFUSED")>>),
      SimpleRule("r3", <<Matcher("and", "domain_suffix", <<"a", ".", "x">>)>>,
                 <<AStaticIp("10.9.9.9")>>),
      SimpleRule("r4", <<MQclass("IN"), Matcher("and", "domain_suffix", <<"x">>)>>,
                 <<AStatic("NOTIMP")>>),
      SimpleRule("r5", <<MAny>>, <<AForward>>) }

\* the most rules of a walked pipeline
MaxWalkRules == 2

IndexWalkProbes ==
    { [kind |-> "index_walk", rules |-> rules, q |-> q, out |-> None] :
        rules \in UNION { [1..n -> WalkRuleSet] : n \in 1..MaxWalkRules },
        q \in Questions }

\* apply_rules on empty caches for a pipeline of the probe's rules, with the
\* candidates it walked, next to the rules whose chain is true for the request
CallIndexWalk ==
    /\ probe.kind = "index_walk" /\ probe.out = None
    /\ LET cfg == ConfigOf(0, <<PipelineOf("p1", probe.rules)>>)
           compiled == compile_pipelines(cfg)
           p == FirstPipeline(cfg).pipeline
           q == parse_quick(Packet(1, probe.q))
           cands == Candidates(compiled, p, q.qname, q.qtype)
       IN probe' = [probe EXCEPT !.out =
            [candidates |-> {cands[i] : i \in 1..Len(cands)},
             matching |-> {i \in 1..Len(p.rules) :
                             RuleMatches(p.rules[i], q.qname, q.qclass, q.client_ip,
                                         q.edns_present)},
             decision |-> apply_rules([h \in Hashes |-> None], compiled, cfg, p, q,
                                      {}).decision,
             in_order |-> FirstMatchDecision(cfg, p, q, {})]]
    /\ UNCHANGED <<pipeline, compiled_pipelines, cache, rule_cache, inflight, chan, calls,
                   watcher>>

\* the most actions of a probed response action list
MaxRaActions == 3

\* the upstream a Forward action names
RaUpstreamAddr == "9.9.9.9:53"

RaActionSet == { ALog, AAllow, ADeny, AForward, AForwardTo(RaUpstreamAddr) }

\* the packet of the probing request
RaPacket == Packet(1, [qname |-> Chars("a.x"), qtype |-> 1, qclass |-> "IN",
                       client_ip |-> ClientIp])

\* the context of a first upstream response, as handle_packet passes it on
RaInitialCtx ==
    ResponseContext(UpstreamBytes(RaPacket, DefaultUpstream,
                                  [kind |-> "reply", rcode |-> "NXDomain", ttl |-> 0],
                                  PoolId(1)),
                    DefaultUpstream)

\* a call of apply_response_actions: an action list, the initial context or
\* none, and the response matchers of the rule
RaProbes ==
    { [kind |-> "ra", actions |-> actions, ctx0 |-> ctx0, response_matchers |-> rms,
       c |-> None, forwarded |-> <<>>, out |-> None] :
        actions \in UNION { [1..n -> RaActionSet] : n \in 0..MaxRaActions },
        ctx0 \in { None, RaInitialCtx },
        rms \in { <<>>, <<RmRcode("NOERROR")>> } }

\* the probed call with its locals c, outside of any other request
RaWorld(c) ==
    [cache |-> cache, rule_cache |-> rule_cache, inflight |-> inflight, chan |-> chan,
     compiled |-> compiled_pipelines, me |-> 1, c |-> c, k |-> None]

\* what a segment of the call leaves in the probe: the locals, and the result
\* once the function has returned it
RaSettled(w) ==
    [probe EXCEPT !.c = w.c,
                  !.out = IF w.k # None /\ w.k.op = "action_result" THEN w.k.arg
                          ELSE IF w.c.pc \in {"done", "exit"} THEN [kind |-> "error"]
                          ELSE None]

\* apply_response_actions is entered and runs to its return or first forward
CallResponseActions ==
    /\ probe.kind = "ra" /\ probe.c = None
    /\ LET c == [IdleCall EXCEPT !.pc = "hp", !.packet = RaPacket,
                                 !.q = parse_quick(RaPacket), !.cfg = pipeline,
                                 !.ra = RaFrame(probe.actions, probe.ctx0,
                                                probe.response_matchers, "r1", 2,
                                                "hp_ok")]
       IN probe' = RaSettled(apply_response_actions(RaWorld(c)))
    /\ UNCHANGED <<pipeline, compiled_pipelines, cache, rule_cache, inflight, chan, calls,
                   watcher>>

\* the forward_upstream of a Forward action returns and the loop goes on
ResponseActionsForwarded(o) ==
    /\ probe.kind = "ra" /\ probe.c # None /\ probe.out = None
    /\ probe.c.pc = "upstream"
    /\ LET resp == IF o.kind = "fail" THEN [kind |-> "err"]
                   ELSE [kind |-> "ok",
                         raw |-> UpstreamBytes(RaPacket, probe.c.upstream_addr, o,
                                               PoolId(1))]
           w == RaForwarded(RaWorld([probe.c EXCEPT !.pc = "hp"]), resp)
           w1 == IF w.k # None /\ w.k.op = "apply_response_actions"
                 THEN apply_response_actions([w EXCEPT !.k = None])
                 ELSE w
       IN probe' = [RaSettled(w1) EXCEPT
                       !.forwarded = Append(@, [upstream |-> probe.c.upstream_addr,
                                                resp |-> resp])]
    /\ UNCHANGED <<pipeline, compiled_pipelines, cache, rule_cache, inflight, chan, calls,
                   watcher>>

InitPure ==
    /\ probe \in SelectProbes \cup { p \in ChainProbes : Len(p.ops) = Len(p.vals) }
                 \cup CandidateProbes \cup SmartProbes \cup StaticIpProbes
                 \cup IndexWalkProbes \cup RaProbes
    /\ pipeline = CfgForward
    /\ compiled_pipelines = compile_pipelines(pipeline)
    /\ cache = [h \in Hashes |-> None]
    /\ rule_cache = [h \in Hashes |-> None]
    /\ inflight = [h \in Hashes |-> None]
    /\ chan = [c \in Calls |-> None]
    /\ calls = [c \in Calls |-> IdleCall]
    /\ watcher = WatcherStarted

NextPure ==
    \/ CallSelect
    \/ CallChain
    \/ CallCandidates
    \/ CallStaticIp
    \/ CallIndexWalk
    \/ CallResponseActions
    \/ \E o \in UpstreamOutcomes : ResponseActionsForwarded(o)
    \/ SmartEnter
    \/ \E r \in {"ok"} \cup SendErrors : SmartUdpDone(r)
    \/ \E r \in {"ok", "timeout", "io"} : SmartTcpDone(r)

\* one call of a function, on any of its bounded arguments
SpecPure == InitPure /\ [][NextPure]_vars

(***************************************************************************)
(* TcpMuxClient::rewrite_id under contention                               *)
(***************************************************************************)

\* Range of the u16 ids of a TcpMuxClient, reduced; next_id wraps at its end
IdSpace == 6

\* Tasks that call rewrite_id on the one client at the same time
MuxCalls == 3

MuxTasks == 1..MuxCalls

\* the counter stays where it is
FetchKeep(next_id) == next_id

\* next_id after fetch_add(1): AtomicU16 wraps
FetchAdd(next_id) == (next_id + 1) % IdSpace

\* the locals of a rewrite_id call at its entry; new_id is -1 until the loop
\* breaks with a candidate
MuxEntry == [pc |-> "fetch", cand |-> 0, tries |-> 0, new_id |-> -1, in_use |-> FALSE]

\* A client at any counter value with ids pending. A sender holds one of the
\* 128 permits from before rewrite_id until its pending entry is gone, so
\* callers and pending ids together stay far below the number of ids; here
\* they stay below IdSpace.
MuxProbes ==
    { [kind |-> "rewrite_id", next_id |-> n, pending |-> ids,
       tasks |-> [t \in MuxTasks |-> MuxEntry]] :
        n \in 0..(IdSpace - 1),
        ids \in { S \in SUBSET (0..(IdSpace - 1)) : Cardinality(S) + MuxCalls < IdSpace } }

\* let cand = self.next_id.fetch_add(1, Relaxed); tries += 1
MuxFetch(t) ==
    /\ probe.tasks[t].pc = "fetch"
    /\ probe' = [probe EXCEPT !.next_id = FetchAdd(@),
                              !.tasks[t].cand = probe.next_id,
                              !.tasks[t].tries = @ + 1,
                              !.tasks[t].pc = "check"]
    /\ UNCHANGED <<pipeline, compiled_pipelines, cache, rule_cache, inflight, chan, calls,
                   watcher>>

\* let in_use = self.pending.contains_key(&cand), and what the loop does with it
MuxCheck(t) ==
    /\ probe.tasks[t].pc = "check"
    /\ LET task == probe.tasks[t]
           in_use == task.cand \in probe.pending
       IN probe' = [probe EXCEPT !.tasks[t] =
            IF ~in_use
            THEN [task EXCEPT !.pc = "returned", !.new_id = task.cand, !.in_use = in_use]
            ELSE IF task.tries > IdSpace - 1
            THEN [task EXCEPT !.pc = "failed"]
            ELSE [task EXCEPT !.pc = "fetch"]]
    /\ UNCHANGED <<pipeline, compiled_pipelines, cache, rule_cache, inflight, chan, calls,
                   watcher>>

\* the reader task takes the entry of a response that arrived out of pending
MuxReaderRemoves(id) ==
    /\ probe.kind = "rewrite_id" /\ id \in probe.pending
    /\ probe' = [probe EXCEPT !.pending = @ \ {id}]
    /\ UNCHANGED <<pipeline, compiled_pipelines, cache, rule_cache, inflight, chan, calls,
                   watcher>>

MuxStep == \E t \in MuxTasks : MuxFetch(t) \/ MuxCheck(t)

InitMux ==
    /\ probe \in MuxProbes
    /\ pipeline = CfgForward
    /\ compiled_pipelines = compile_pipelines(pipeline)
    /\ cache = [h \in Hashes |-> None]
    /\ rule_cache = [h \in Hashes |-> None]
    /\ inflight = [h \in Hashes |-> None]
    /\ chan = [c \in Calls |-> None]
    /\ calls = [c \in Calls |-> IdleCall]
    /\ watcher = WatcherStarted

NextMux ==
    \/ \E t \in MuxTasks : MuxFetch(t)
    \/ \E t \in MuxTasks : MuxCheck(t)
    \/ \E id \in 0..(IdSpace - 1) : MuxReaderRemoves(id)

\* the callers run on the worker threads of the runtime: a caller that can take
\* a step takes it
SpecMux == InitMux /\ [][NextMux]_vars /\ WF_vars(MuxStep)

(***************************************************************************)
(* UdpClient: one pooled socket and its receive task                       *)
(***************************************************************************)

\* Range of the u16 ids of a pooled socket, reduced
UdpIdSpace == 3

UdpIds == 0..(UdpIdSpace - 1)

\* Requests sent through the one socket
UdpCalls == 2

UdpSenders == 1..UdpCalls

\* where datagrams come from: the two upstreams requests are sent to
UdpAddrs == { "1.1.1.1:53", "9.9.9.9:53" }

\* transaction ids of the forwarded packets
UdpOriginalIds == { 4097, 4098 }

UdpIdle == [pc |-> "idle", original_id |-> 0, addr |-> "", new_id |-> -1, rx |-> None,
            result |-> None]

UdpProbes ==
    { [kind |-> "udp_pool", next_id |-> n, inflight |-> [i \in UdpIds |-> None],
       tasks |-> [t \in UdpSenders |-> UdpIdle], received |-> {}] : n \in UdpIds }

\* the "find a free ID" loop of send: the id it breaks with and the counter it
\* leaves, or no id after more than 100 further attempts (here: a full round)
RECURSIVE UdpFreeId(_, _, _)
UdpFreeId(next_id, map, attempts) ==
    IF map[next_id] = None
    THEN [found |-> TRUE, new_id |-> next_id, next_id |-> (next_id + 1) % UdpIdSpace]
    ELSE IF attempts + 1 > UdpIdSpace
    THEN [found |-> FALSE, new_id |-> -1, next_id |-> (next_id + 1) % UdpIdSpace]
    ELSE UdpFreeId((next_id + 1) % UdpIdSpace, map, attempts + 1)

\* UdpClient::send on the pool, up to the wait for the reply: a free id, the
\* inflight entry, and send_to, which on an error takes the entry out again
UdpPoolSend(t, original_id, addr, sent) ==
    /\ probe.tasks[t].pc = "idle"
    /\ LET free == UdpFreeId(probe.next_id, probe.inflight, 0)
           task == [probe.tasks[t] EXCEPT !.original_id = original_id, !.addr = addr]
       IN probe' =
            IF ~free.found
            THEN [probe EXCEPT !.next_id = free.next_id,
                               !.tasks[t] = [task EXCEPT !.pc = "done",
                                                         !.result = [kind |-> "err",
                                                                     error |-> "exhausted"]]]
            ELSE IF ~sent
            THEN [probe EXCEPT !.next_id = free.next_id,
                               !.tasks[t] = [task EXCEPT !.pc = "done",
                                                         !.new_id = free.new_id,
                                                         !.result = [kind |-> "err",
                                                                     error |-> "io"]]]
            ELSE [probe EXCEPT !.next_id = free.next_id,
                               !.inflight[free.new_id] =
                                   [original_id |-> original_id, expected_addr |-> addr,
                                    tx |-> t],
                               !.tasks[t] = [task EXCEPT !.pc = "wait",
                                                         !.new_id = free.new_id]]
    /\ UNCHANGED <<pipeline, compiled_pipelines, cache, rule_cache, inflight, chan, calls,
                   watcher>>

\* the receive task takes one datagram with the given id from src
UdpPoolRecv(id, src) ==
    /\ probe.kind = "udp_pool"
    /\ LET e == probe.inflight[id]
           seen == [id |-> id, src |-> src, entry |-> e,
                    removed |-> e # None,
                    answered |-> e # None /\ src = e.expected_addr]
       IN probe' =
            IF e = None
            THEN [probe EXCEPT !.received = @ \cup {seen}]
            ELSE [probe EXCEPT !.inflight[id] = None,
                               !.received = @ \cup {seen},
                               !.tasks[e.tx].rx =
                                   IF src = e.expected_addr
                                   THEN [kind |-> "ok", id |-> e.original_id, from |-> src]
                                   ELSE [kind |-> "closed"]]
    /\ UNCHANGED <<pipeline, compiled_pipelines, cache, rule_cache, inflight, chan, calls,
                   watcher>>

\* match timeout(timeout_dur, rx).await of send, when the channel has fired
UdpPoolWake(t) ==
    /\ probe.tasks[t].pc = "wait" /\ probe.tasks[t].rx # None
    /\ probe' = [probe EXCEPT !.tasks[t].pc = "done",
                              !.tasks[t].result =
                                  IF probe.tasks[t].rx.kind = "ok"
                                  THEN probe.tasks[t].rx
                                  ELSE [kind |-> "err", error |-> "channel closed"]]
    /\ UNCHANGED <<pipeline, compiled_pipelines, cache, rule_cache, inflight, chan, calls,
                   watcher>>

\* the same, when the timeout fires first
UdpPoolTimeout(t) ==
    /\ probe.tasks[t].pc = "wait" /\ probe.tasks[t].rx = None
    /\ probe' = [probe EXCEPT !.inflight[probe.tasks[t].new_id] = None,
                              !.tasks[t].pc = "done",
                              !.tasks[t].result = [kind |-> "err", error |-> "timeout"]]
    /\ UNCHANGED <<pipeline, compiled_pipelines, cache, rule_cache, inflight, chan, calls,
                   watcher>>

InitUdp ==
    /\ probe \in UdpProbes
    /\ pipeline = CfgForward
    /\ compiled_pipelines = compile_pipelines(pipeline)
    /\ cache = [h \in Hashes |-> None]
    /\ rule_cache = [h \in Hashes |-> None]
    /\ inflight = [h \in Hashes |-> None]
    /\ chan = [c \in Calls |-> None]
    /\ calls = [c \in Calls |-> IdleCall]
    /\ watcher = WatcherStarted

NextUdp ==
    \/ \E t \in UdpSenders, o \in UdpOriginalIds, a \in UdpAddrs, sent \in BOOLEAN :
          UdpPoolSend(t, o, a, sent)
    \/ \E id \in UdpIds, src \in UdpAddrs : UdpPoolRecv(id, src)
    \/ \E t \in UdpSenders : UdpPoolWake(t)
    \/ \E t \in UdpSenders : UdpPoolTimeout(t)

\* requests through one pooled socket, and any datagrams arriving on it
SpecUdp == InitUdp /\ [][NextUdp]_vars

(***************************************************************************)
(* TcpMuxClient: senders, connections and their reader tasks               *)
(***************************************************************************)

\* Permits of inflight_limit, Semaphore::new(128), reduced
TcpPermits == 2

\* Calls of send on the one client
TcpCalls == 3

TcpSenders == 1..TcpCalls

\* Connections the client may open in a run
TcpMaxConns == 2

TcpConns == 1..TcpMaxConns

\* a permit is handed out whatever the number held
PermitAlways(held) == TRUE

\* inflight_limit.acquire() completes while fewer than all permits are held
PermitFree(held) == held < TcpPermits

TcpIdle == [pc |-> "idle", permit |-> FALSE, new_id |-> -1, wrote_on |-> 0, rx |-> None,
            result |-> None]

\* TcpMuxClient::new: no connection (conn 0 is None), next_id 1, nothing pending
TcpProbes ==
    { [kind |-> "tcp_mux", conn |-> 0, opened |-> 0, next_id |-> 1,
       pending |-> [i \in 0..(IdSpace - 1) |-> None],
       readers |-> [g \in TcpConns |-> "none"],
       tasks |-> [t \in TcpSenders |-> TcpIdle],
       resets |-> {}] }

TcpHeld == Cardinality({ t \in TcpSenders : probe.tasks[t].permit })

TcpErr(error) == [kind |-> "err", error |-> error, by |-> 0]

\* send returns: the permit is dropped with the future
TcpReturn(task, result) ==
    [task EXCEPT !.pc = "done", !.permit = FALSE, !.result = result]

\* the candidate rewrite_id breaks with, and the counter after it
RECURSIVE TcpFreeId(_, _)
TcpFreeId(next_id, map) ==
    IF map[next_id] = None
    THEN [new_id |-> next_id, next_id |-> FetchAdd(next_id)]
    ELSE TcpFreeId(FetchAdd(next_id), map)

\* 1. acquire the semaphore within the timeout, then the check of the budget
TcpAcquire(t, outcome) ==
    /\ probe.kind = "tcp_mux" /\ probe.tasks[t].pc = "idle"
    /\ outcome \in {"ok", "late", "timeout"}
    /\ outcome = "timeout" <=> ~PermitFree(TcpHeld)
    /\ probe' = [probe EXCEPT !.tasks[t] =
            CASE outcome = "timeout" -> TcpReturn(@, TcpErr("semaphore timeout"))
              [] outcome = "late" -> TcpReturn(@, TcpErr("timeout before processing"))
              [] OTHER -> [@ EXCEPT !.pc = "rewrite", !.permit = TRUE]]
    /\ UNCHANGED <<pipeline, compiled_pipelines, cache, rule_cache, inflight, chan, calls,
                   watcher>>

\* rewrite_id and pending.insert(new_id, Pending { original_id, tx })
TcpInsert(t) ==
    /\ probe.kind = "tcp_mux" /\ probe.tasks[t].pc = "rewrite"
    /\ LET free == TcpFreeId(probe.next_id, probe.pending)
       IN probe' = [probe EXCEPT !.next_id = free.next_id,
                                 !.pending[free.new_id] = [tx |-> t],
                                 !.tasks[t].new_id = free.new_id,
                                 !.tasks[t].pc = "ensure"]
    /\ UNCHANGED <<pipeline, compiled_pipelines, cache, rule_cache, inflight, chan, calls,
                   watcher>>

\* the error arms of write_res: remove_pending(new_id), reset_conn, return Err
TcpWriteFailed(t, error) ==
    [probe EXCEPT !.pending[probe.tasks[t].new_id] = None,
                  !.conn = 0,
                  !.resets = @ \cup {[by |-> 0, conn |-> probe.conn]},
                  !.tasks[t] = TcpReturn(@, TcpErr(error))]

\* ensure_conn inside the write timeout: an open connection is kept, else one
\* is connected, its write half stored and a reader spawned on its read half
TcpEnsure(t, outcome) ==
    /\ probe.kind = "tcp_mux" /\ probe.tasks[t].pc = "ensure"
    /\ outcome \in {"ok", "err", "timeout"}
    /\ probe.conn # 0 => outcome = "ok"
    /\ (probe.conn = 0 /\ outcome = "ok") => probe.opened < TcpMaxConns
    /\ probe' =
         IF probe.conn # 0
         THEN [probe EXCEPT !.tasks[t].pc = "write"]
         ELSE IF outcome = "ok"
         THEN [probe EXCEPT !.opened = @ + 1, !.conn = probe.opened + 1,
                            !.readers[probe.opened + 1] = "read",
                            !.tasks[t].pc = "write"]
         ELSE TcpWriteFailed(t, IF outcome = "err" THEN "connect" ELSE "write/connect timeout")
    /\ UNCHANGED <<pipeline, compiled_pipelines, cache, rule_cache, inflight, chan, calls,
                   watcher>>

\* the write under write_lock and the conn lock, and the check of the budget
\* before the wait for the response
TcpWrite(t, outcome) ==
    /\ probe.kind = "tcp_mux" /\ probe.tasks[t].pc = "write"
    /\ outcome \in {"ok", "late", "err", "timeout"}
    /\ probe' =
         IF probe.conn = 0
         THEN TcpWriteFailed(t, "tcp write half missing")
         ELSE CASE outcome = "ok" ->
                     [probe EXCEPT !.tasks[t].pc = "wait", !.tasks[t].wrote_on = probe.conn]
                [] outcome = "late" ->
                     [probe EXCEPT !.pending[probe.tasks[t].new_id] = None,
                                   !.tasks[t] =
                                       TcpReturn([@ EXCEPT !.wrote_on = probe.conn],
                                                 TcpErr("timeout waiting for response"))]
                [] outcome = "err" -> TcpWriteFailed(t, "write")
                [] OTHER -> TcpWriteFailed(t, "write/connect timeout")
    /\ UNCHANGED <<pipeline, compiled_pipelines, cache, rule_cache, inflight, chan, calls,
                   watcher>>

\* timeout(final_remaining, rx) when the channel has fired or was dropped
TcpWake(t) ==
    /\ probe.kind = "tcp_mux" /\ probe.tasks[t].pc = "wait" /\ probe.tasks[t].rx # None
    /\ LET rx == probe.tasks[t].rx
       IN probe' =
            IF rx.kind = "canceled"
            THEN [probe EXCEPT !.pending[probe.tasks[t].new_id] = None,
                               !.tasks[t] = TcpReturn(@, TcpErr("tcp response canceled"))]
            ELSE [probe EXCEPT !.tasks[t] = TcpReturn(@, rx)]
    /\ UNCHANGED <<pipeline, compiled_pipelines, cache, rule_cache, inflight, chan, calls,
                   watcher>>

\* the same when the timeout elapses: remove_pending, reset_conn
TcpTimeout(t) ==
    /\ probe.kind = "tcp_mux" /\ probe.tasks[t].pc = "wait" /\ probe.tasks[t].rx = None
    /\ probe' = TcpWriteFailed(t, "tcp response timeout")
    /\ UNCHANGED <<pipeline, compiled_pipelines, cache, rule_cache, inflight, chan, calls,
                   watcher>>

\* the reader of connection g reads a response to a request written on g
TcpReaderResponse(g, id) ==
    /\ probe.kind = "tcp_mux" /\ probe.readers[g] = "read"
    /\ probe.pending[id] # None
    /\ probe.tasks[probe.pending[id].tx].wrote_on = g
    /\ probe' = [probe EXCEPT !.pending[id] = None,
                              !.tasks[probe.pending[id].tx].rx = [kind |-> "ok", by |-> g]]
    /\ UNCHANGED <<pipeline, compiled_pipelines, cache, rule_cache, inflight, chan, calls,
                   watcher>>

\* read_exact of the reader of connection g fails; fail_all_async takes every
\* key of pending out and sends the error to its sender
TcpReaderError(g) ==
    /\ probe.kind = "tcp_mux" /\ probe.readers[g] = "read"
    /\ probe' = [probe EXCEPT
            !.pending = [i \in 0..(IdSpace - 1) |-> None],
            !.readers[g] = "failing",
            !.tasks = [t \in TcpSenders |->
                          IF \E i \in 0..(IdSpace - 1) :
                                 probe.pending[i] # None /\ probe.pending[i].tx = t
                          THEN [probe.tasks[t] EXCEPT
                                   !.rx = [kind |-> "err", error |-> "tcp read failed",
                                           by |-> g]]
                          ELSE probe.tasks[t]]]
    /\ UNCHANGED <<pipeline, compiled_pipelines, cache, rule_cache, inflight, chan, calls,
                   watcher>>

\* the end of fail_all_async: reset_conn, and the reader task breaks
TcpReaderReset(g) ==
    /\ probe.kind = "tcp_mux" /\ probe.readers[g] = "failing"
    /\ probe' = [probe EXCEPT !.conn = 0,
                              !.resets = @ \cup {[by |-> g, conn |-> probe.conn]},
                              !.readers[g] = "stopped"]
    /\ UNCHANGED <<pipeline, compiled_pipelines, cache, rule_cache, inflight, chan, calls,
                   watcher>>

InitTcp ==
    /\ probe \in TcpProbes
    /\ pipeline = CfgForward
    /\ compiled_pipelines = compile_pipelines(pipeline)
    /\ cache = [h \in Hashes |-> None]
    /\ rule_cache = [h \in Hashes |-> None]
    /\ inflight = [h \in Hashes |-> None]
    /\ chan = [c \in Calls |-> None]
    /\ calls = [c \in Calls |-> IdleCall]
    /\ watcher = WatcherStarted

NextTcp ==
    \/ \E t \in TcpSenders, o \in {"ok", "late", "timeout"} : TcpAcquire(t, o)
    \/ \E t \in TcpSenders : TcpInsert(t)
    \/ \E t \in TcpSenders, o \in {"ok", "err", "timeout"} : TcpEnsure(t, o)
    \/ \E t \in TcpSenders, o \in {"ok", "late", "err", "timeout"} : TcpWrite(t, o)
    \/ \E t \in TcpSenders : TcpWake(t)
    \/ \E t \in TcpSenders : TcpTimeout(t)
    \/ \E g \in TcpConns, id \in 0..(IdSpace - 1) : TcpReaderResponse(g, id)
    \/ \E g \in TcpConns : TcpReaderError(g)
    \/ \E g \in TcpConns : TcpReaderReset(g)

\* calls of send on one client, its connections and their readers
SpecTcp == InitTcp /\ [][NextTcp]_vars

(***************************************************************************)
(* proto_utils::parse_quick on the bytes of a packet                       *)
(***************************************************************************)

\* a header with QDCOUNT 1 and one with QDCOUNT 0
QuickHeader == <<16, 1, 1, 0, 0, 1, 0, 0, 0, 0, 0, 0>>

QuickHeaderNoQuestion == <<16, 1, 1, 0, 0, 0, 0, 0, 0, 0, 0, 0>>

\* QTYPE A, QCLASS IN
QuickTail == <<0, 1, 0, 1>>

\* bytes of the question section: end of name, a label length, a letter, the
\* first byte of a compression pointer, and the offset of the first byte
\* after the header
QuickBytes == { 0, 1, 65, 192, 12 }

\* the longest question section made of any bytes
MaxQuickBody == 3

\* the longest chain of pointers, each to the next
MaxQuickChain == 6

\* k pointers, the i-th at offset 12 + 2i to offset 12 + 2(i + 1)
RECURSIVE QuickChain(_, _)
QuickChain(i, k) ==
    IF i >= k THEN <<>> ELSE <<192, 12 + 2 * (i + 1)>> \o QuickChain(i + 1, k)

QuickBodies ==
    UNION { [1..n -> QuickBytes] : n \in 0..MaxQuickBody }
    \cup { b \o QuickTail : b \in UNION { [1..n -> QuickBytes] : n \in 0..MaxQuickBody } }
    \cup { QuickChain(0, k) \o t \o QuickTail :
             k \in 0..MaxQuickChain, t \in { <<0>>, <<1, 65, 0>> } }
    \cup { <<1, 65, 192, 12>>, <<1, 65, 192, 12>> \o QuickTail }

QuickPackets ==
    { QuickHeader \o b : b \in QuickBodies }
    \cup { QuickHeaderNoQuestion \o <<0>> \o QuickTail, <<16, 1, 1>>, <<>> }

\* lengths of the caller's buffer
QuickBufLens == { 0, 1, 3, 16 }

QuickProbes ==
    { [kind |-> "parse_quick", packet |-> pk, buf_len |-> n, pc |-> "enter",
       pos |-> 12, buf_pos |-> 0, jumped |-> FALSE, max_jumps |-> 5, current_pos |-> 12,
       buf |-> <<>>, reads |-> {}, writes |-> {}, hops |-> 0, passes |-> 0,
       out |-> None] :
        pk \in QuickPackets, n \in QuickBufLens }

\* Passes of the loop a call can make: between two pointers every pass takes a
\* label of at least two bytes, and there are at most 5 pointers
QuickPassLimit(packet) == 5 * (Len(packet) + 1)

\* packet[i], indices from 0
ByteAt(packet, i) == IF i < Len(packet) THEN packet[i + 1] ELSE -1

\* u8::to_ascii_lowercase
ByteLower(b) == IF b >= 65 /\ b <= 90 THEN b + 32 ELSE b

\* len & 0xC0 == 0xC0
IsPointer(len) == len >= 192

\* the counter is left as it is
JumpsKept(max_jumps) == max_jumps

\* max_jumps -= 1
JumpsLeft(max_jumps) == max_jumps - 1

\* parse_quick returns None
QuickNone(p) == [p EXCEPT !.pc = "done", !.out = None]

\* the checks of the header
QuickEnter ==
    /\ probe.kind = "parse_quick" /\ probe.pc = "enter"
    /\ probe' =
         IF Len(probe.packet) < 12 THEN QuickNone(probe)
         ELSE LET p == [probe EXCEPT !.reads = @ \cup {0, 1, 4, 5}]
                  qd_count == ByteAt(probe.packet, 4) * 256 + ByteAt(probe.packet, 5)
              IN IF qd_count = 0 THEN QuickNone(p) ELSE [p EXCEPT !.pc = "loop"]
    /\ UNCHANGED <<pipeline, compiled_pipelines, cache, rule_cache, inflight, chan, calls,
                   watcher>>

\* for &b in label_bytes: the bytes from index i on are put into buf, each
\* after the check of buf_pos against the length of buf
RECURSIVE CopyLabel(_, _)
CopyLabel(p, i) ==
    IF i > p.label_len THEN [p EXCEPT !.ok = TRUE]
    ELSE IF p.buf_pos >= p.buf_len THEN [p EXCEPT !.ok = FALSE]
    ELSE CopyLabel([p EXCEPT !.buf = Append(@, ByteLower(ByteAt(p.packet,
                                                                 p.current_pos + i - 1))),
                             !.reads = @ \cup {p.current_pos + i - 1},
                             !.writes = @ \cup {p.buf_pos},
                             !.buf_pos = @ + 1], i + 1)

\* one pass of the loop over the name
QuickLoop ==
    /\ probe.kind = "parse_quick" /\ probe.pc = "loop"
    /\ LET packet_len == Len(probe.packet)
           cp == probe.current_pos
           len == ByteAt(probe.packet, cp)
           p0 == [probe EXCEPT !.reads = @ \cup {cp},
                               !.passes = Min(@ + 1, QuickPassLimit(probe.packet) + 1)]
       IN probe' =
         IF cp >= packet_len
         THEN QuickNone([probe EXCEPT
                            !.passes = Min(@ + 1, QuickPassLimit(probe.packet) + 1)])
         ELSE IF len = 0
         THEN [p0 EXCEPT !.pos = IF probe.jumped THEN @ ELSE cp + 1, !.pc = "tail"]
         ELSE IF IsPointer(len)
         THEN IF packet_len < cp + 2 THEN QuickNone(p0)
              ELSE LET offset == (len % 64) * 256 + ByteAt(probe.packet, cp + 1)
                       p1 == [p0 EXCEPT !.reads = @ \cup {cp + 1},
                                        !.pos = IF probe.jumped THEN @ ELSE cp + 2,
                                        !.jumped = TRUE,
                                        !.current_pos = offset,
                                        !.max_jumps = JumpsLeft(@),
                                        !.hops = Min(@ + 1, CountCap)]
                   IN IF p1.max_jumps = 0 THEN QuickNone(p1) ELSE p1
         ELSE IF packet_len < cp + 1 + len THEN QuickNone(p0)
         ELSE IF probe.buf_pos > 0 /\ probe.buf_pos >= probe.buf_len THEN QuickNone(p0)
         ELSE LET p1 == IF probe.buf_pos > 0
                        THEN [p0 EXCEPT !.buf = Append(@, 46),
                                        !.writes = @ \cup {probe.buf_pos},
                                        !.buf_pos = @ + 1]
                        ELSE p0
                  from == [packet |-> probe.packet, buf_len |-> probe.buf_len,
                           current_pos |-> cp + 1, label_len |-> len, buf |-> p1.buf,
                           buf_pos |-> p1.buf_pos, reads |-> p1.reads,
                           writes |-> p1.writes, ok |-> TRUE]
                  copied == CopyLabel(from, 1)
                  p2 == [p1 EXCEPT !.buf = copied.buf, !.buf_pos = copied.buf_pos,
                                   !.reads = copied.reads, !.writes = copied.writes]
              IN IF ~copied.ok THEN QuickNone(p2)
                 ELSE [p2 EXCEPT !.current_pos = cp + 1 + len]
    /\ UNCHANGED <<pipeline, compiled_pipelines, cache, rule_cache, inflight, chan, calls,
                   watcher>>

\* QTYPE and QCLASS behind the name, and from_utf8 of the bytes put into buf
QuickFinish ==
    /\ probe.kind = "parse_quick" /\ probe.pc = "tail"
    /\ LET pos == probe.pos
       IN probe' =
         IF Len(probe.packet) < pos + 4 THEN QuickNone(probe)
         ELSE LET p == [probe EXCEPT !.reads = @ \cup {pos, pos + 1, pos + 2, pos + 3}]
              IN IF \E i \in 1..Len(probe.buf) : probe.buf[i] >= 128 THEN QuickNone(p)
                 ELSE [p EXCEPT !.pc = "done",
                          !.out = [tx_id |-> ByteAt(probe.packet, 0) * 256
                                              + ByteAt(probe.packet, 1),
                                   qname |-> probe.buf,
                                   qtype |-> ByteAt(probe.packet, pos) * 256
                                             + ByteAt(probe.packet, pos + 1),
                                   qclass |-> ByteAt(probe.packet, pos + 2) * 256
                                              + ByteAt(probe.packet, pos + 3)]]
    /\ UNCHANGED <<pipeline, compiled_pipelines, cache, rule_cache, inflight, chan, calls,
                   watcher>>

InitQuick ==
    /\ probe \in QuickProbes
    /\ pipeline = CfgForward
    /\ compiled_pipelines = compile_pipelines(pipeline)
    /\ cache = [h \in Hashes |-> None]
    /\ rule_cache = [h \in Hashes |-> None]
    /\ inflight = [h \in Hashes |-> None]
    /\ chan = [c \in Calls |-> None]
    /\ calls = [c \in Calls |-> IdleCall]
    /\ watcher = WatcherStarted

NextQuick ==
    \/ QuickEnter
    \/ QuickLoop
    \/ QuickFinish

\* one call of parse_quick on any of the packets and buffers
SpecQuick == InitQuick /\ [][NextQuick]_vars

(***************************************************************************)
(* Properties                                                              *)
(***************************************************************************)

Answered(c) == calls[c].result.kind = "ok"

Finished(c) == calls[c].pc = "done"

\* C1: every response handed back for a request, whichever path produced it
\* (fast path, L2 hit, static, leader, follower, response action, response jump),
\* carries the transaction id of that request in its first two bytes.
C1_TransactionIdEchoed ==
    \A c \in Calls :
        Answered(c) => calls[c].result.bytes.id = calls[c].packet.tx_id

\* a follower has answered with bytes its leader produced under another id
C1_Witness ==
    \E c \in Calls : \E b \in Calls :
        /\ b # c
        /\ Answered(c) /\ Answered(b)
        /\ calls[c].path = "follower"
        /\ calls[b].path \in {"forwarded", "response_action"}
        /\ calls[b].result.bytes.id # calls[c].result.bytes.id
        /\ calls[b].result.bytes.body = calls[c].result.bytes.body

\* call c is in forward_upstream for hash h from the Forward arm of handle_packet
InHpUpstream(c, h) ==
    /\ calls[c].pc = "upstream"
    /\ calls[c].pj = None
    /\ calls[c].dedupe_hash = h

\* C2: single-flight.  While a slot for a fingerprint is in the map, the only
\* call in an upstream exchange for that fingerprint is the leader that holds
\* the slot; every other call waits on a channel of the slot.  (Calls that retry
\* after their leader dropped the channel are left out: they are stated to
\* forward on their own.)
C2_SingleFlight ==
    \A h \in Hashes :
        inflight[h] # None =>
            \A c \in Calls :
                InHpUpstream(c, h) /\ ~calls[c].retried => c = inflight[h].owner

\* C3: no follower is left waiting on a channel after the leader whose slot it
\* registered in has returned its response: the leader's terminal response
\* reaches every waiter, or its slot is removed and the channel closes.
C3_FollowersReleased ==
    \A c \in Calls :
        calls[c].pc = "await" /\ chan[c] = Pending =>
            \E h \in Hashes :
                /\ inflight[h] # None
                /\ InSeq(c, inflight[h].waiters)
                /\ ~Finished(inflight[h].owner)

\* C4: when a call that claimed a slot as leader has finished, with bytes or
\* with an error, the slot it claimed is no longer in the map.
C4_NoSlotOutlivesLeader ==
    \A h \in Hashes :
        inflight[h] # None => ~Finished(inflight[h].owner)

\* C5: the bytes a follower returns are, from the third byte on, the bytes its
\* leader returned
C5_FollowerBytesAreLeaders ==
    \A c \in Calls :
        (/\ Answered(c)
         /\ calls[c].path = "follower"
         /\ Answered(calls[c].leader))
        => calls[c].result.bytes.body = calls[calls[c].leader].result.bytes.body

Configured(c) == calls[c].cfg # None

\* C6: every apply_rules call of a request returns the decision of the first
\* rule in declaration order, outside the skip set, whose matcher chain is true
\* and whose actions reach a terminal action (the pipeline's default forward
\* when there is none).
C6_FirstMatchDecides ==
    \A c \in Calls : calls[c].ordered

\* C7: the pipeline transitions of one request, summed over the request phase
\* and the response phase, never exceed response_jump_limit.
C7_JumpBudget ==
    \A c \in Calls :
        Configured(c) => calls[c].transitions <= calls[c].cfg.settings.response_jump_limit

\* the rules that match the request of call c jump to each other in a cycle
InCycle(c) ==
    /\ Configured(c)
    /\ \/ calls[c].cfg = CfgCycle
       \/ calls[c].cfg = CfgClassCycle /\ calls[c].q.qclass = "CH"

\* C8: a request whose matching rules jump in a cycle follows at most
\* response_jump_limit request-phase jumps and is answered SERVFAIL with no
\* answers, with no error and no upstream contacted.
C8_CycleServFail ==
    \A c \in Calls :
        InCycle(c) =>
            /\ calls[c].request_jumps <= calls[c].cfg.settings.response_jump_limit
            /\ calls[c].upstream_calls = 0
            /\ calls[c].result.kind # "err"
            /\ Answered(c) => /\ calls[c].result.bytes.body.rcode = "ServFail"
                              /\ calls[c].result.bytes.body.answers = <<>>

\* C9: a jump to a pipeline id that the configuration does not have, in the
\* request phase or in process_response_jump, is answered SERVFAIL with no
\* answers: never an error, never a forwarded answer.
C9_MissingTargetServFail ==
    \A c \in Calls :
        calls[c].missing_jump # "" =>
            /\ Answered(c)
            /\ calls[c].result.bytes.body.kind = "built"
            /\ calls[c].result.bytes.body.rcode = "ServFail"
            /\ calls[c].result.bytes.body.answers = <<>>

C9_Witness ==
    \E a \in Calls : \E b \in Calls : \E c \in Calls :
        /\ calls[a].missing_jump = "request" /\ Answered(a)
        /\ calls[b].missing_jump = "response" /\ Answered(b)
        /\ calls[b].upstream_calls > 0
        /\ calls[c].cfg = CfgMissing

\* C10: an L2 entry answers a request only when its pipeline_id, qname and
\* qtype are the request's, and an L1 entry decides only when its pipeline_id,
\* client_ip and qname hash are the request's; a request that found an L2
\* entry failing the comparison is not answered from the cache.
C10_CacheValidation ==
    \A c \in Calls :
        /\ calls[c].l2_used # None =>
              /\ calls[c].l2_used.pipeline_id = calls[c].pipeline_id
              /\ calls[c].l2_used.qname = calls[c].q.qname
              /\ calls[c].l2_used.qtype = calls[c].q.qtype
        /\ \A u \in calls[c].l1_used :
              /\ u.entry_pipeline_id = u.pipeline_id
              /\ u.entry_client_ip = calls[c].q.client_ip
              /\ u.entry_qname_hash = fast_hash_str(calls[c].q.qname)
        /\ calls[c].l2_rejected => calls[c].l2_used = None /\ calls[c].path # "cache_hit"

C10_Witness ==
    \E b \in Calls :
        /\ calls[b].l2_rejected /\ calls[b].l1_used # {}
        /\ Answered(b) /\ calls[b].path = "forwarded"

\* the query of a call without its transaction id
QueryOf(c) == [calls[c].packet EXCEPT !.tx_id = 0]

\* configurations whose answers do not depend on an upstream
Deterministic(cfg) == cfg \in {CfgStatic, CfgCycle}

\* C11: under a deterministic pipeline two invocations on the same query,
\* through handle_packet_fast or handle_packet, answer with the same bytes
\* after the transaction id.
C11_SameQuerySameBytes ==
    \A a \in Calls : \A b \in Calls :
        (/\ Answered(a) /\ Answered(b)
         /\ Deterministic(calls[a].cfg) /\ Deterministic(calls[b].cfg)
         /\ QueryOf(a) = QueryOf(b))
        => calls[a].result.bytes.body = calls[b].result.bytes.body

\* call c takes the step in which the upstream call of a Forward decision fails
ForwardFails(c) ==
    /\ calls[c].pc = "upstream"
    /\ calls[c].site \in {"hp", "pj"}
    /\ calls'[c] # calls[c]
    /\ calls'[c].outcome = "fail"

\* the on_miss actions of the Forward decision call c is executing
OnMiss(c) ==
    IF calls[c].site = "hp" THEN calls[c].decision.response_actions_on_miss
    ELSE calls[c].pj.decision.response_actions_on_miss

\* the slots call c holds for the fingerprints it is forwarding
HeldHashes(c) ==
    { h \in Hashes :
        /\ inflight[h] # None /\ inflight[h].owner = c
        /\ \/ h = calls[c].dedupe_hash
           \/ calls[c].site = "pj" /\ h = calls[c].pj.dedupe_hash }

\* C12: when the upstream call of a Forward decision fails and on_miss is
\* empty, the call returns Ok with the SERVFAIL response built from its request
\* and the waiters of its slots receive these bytes.
C12_FailureGivesServFail ==
    [][\A c \in Calls :
          (ForwardFails(c) /\ OnMiss(c) = <<>>) =>
              LET bytes == build_response(calls[c].packet, "ServFail", <<>>)
              IN /\ calls'[c].result = [kind |-> "ok", bytes |-> bytes]
                 /\ \A h \in HeldHashes(c) :
                       /\ inflight'[h] = None
                       /\ \A x \in Calls : InSeq(x, inflight[h].waiters)
                                                => chan'[x] = Delivered(bytes)]_vars

C12_Witness ==
    \E c \in Calls : \E x \in Calls :
        /\ calls[c].outcome = "fail" /\ calls[c].path = "upstream_failed" /\ Answered(c)
        /\ calls[c].result.bytes.body.rcode = "ServFail"
        /\ calls[x].pc = "await" /\ calls[x].leader = c
        /\ chan[x] = Delivered(calls[c].result.bytes)

\* C13: when the upstream call of a Forward decision fails and on_miss is not
\* empty, apply_response_actions is called with the on_miss actions and no
\* response context, in handle_packet and in process_response_jump.
C13_FailureRunsOnMiss ==
    [][\A c \in Calls :
          (ForwardFails(c) /\ OnMiss(c) # <<>>) =>
              calls'[c].last_ra = [actions |-> OnMiss(c), ctx_opt |-> None]]_vars

\* C14: no call inserts an entry into the response cache with an effective TTL
\* of zero, on any insertion path.
C14_NoZeroTtlInsert ==
    \A c \in Calls : 0 \notin calls[c].inserted_ttls

\* the Forward decision d was built from a rule with Continue among its
\* response actions
ContinuesAfterResponse(d) ==
    /\ d # None /\ d.kind = "forward"
    /\ \/ contains_continue(d.response_actions_on_match)
       \/ contains_continue(d.response_actions_on_miss)

\* C15: the rule cache never holds a Forward decision whose rule has Continue
\* in response_actions_on_match or response_actions_on_miss.
C15_NoContinueInRuleCache ==
    \A h \in DOMAIN rule_cache :
        rule_cache[h] # None => ~ContinuesAfterResponse(rule_cache[h].decision)

C15_Witness ==
    \E c \in Calls :
        /\ calls[c].pc = "upstream" /\ calls[c].site = "hp"
        /\ ContinuesAfterResponse(calls[c].decision)
        /\ rule_cache[calculate_rule_hash(calls[c].current_pipeline_id,
                                         calls[c].q.qname, calls[c].q.client_ip)] = None

\* C16: at every moment the engine's compiled pipelines are those compiled from
\* the snapshot in force, also after the watcher has published a new snapshot.
C16_CompiledFollowSnapshot ==
    compiled_pipelines = compile_pipelines(pipeline)

\* C17: the snapshot changes only in a step in which an attempt of the watcher
\* succeeded, at most once per event; an event whose attempts all fail, of
\* which there are at most WatcherRetries, leaves the snapshot as it was.
C17_StoreOnlyOnSuccess ==
    [][/\ pipeline' # pipeline =>
             /\ watcher.pc = "load" /\ watcher'.pc = "recv"
             /\ watcher'.log = "reloaded" /\ watcher'.stores = 1
       /\ watcher'.stores <= 1
       /\ watcher'.failures <= WatcherRetries
       /\ (watcher.pc = "load" /\ watcher'.pc = "recv" /\ watcher'.stores = 0) =>
             /\ pipeline' = pipeline
             /\ watcher'.failures = WatcherRetries
             /\ watcher'.log = "reload_failed"]_vars

C17_Witness ==
    /\ watcher.pc = "recv" /\ watcher.failures = WatcherRetries
    /\ watcher.stores = 0 /\ watcher.log = "reload_failed"
    /\ \E c \in Calls : Answered(c) /\ calls[c].cfg = pipeline

\* select_pipeline has returned
Selected == probe.kind = "select_pipeline" /\ probe.out # None

\* the selectors of the probed config whose matcher chain is true on the request
MatchingSelectors ==
    {i \in 1..Len(probe.cfg.pipeline_select) :
        SelectorChain(probe.cfg.pipeline_select[i], probe.listener_label, probe.q)}

\* those of them that name a pipeline of the config
UsableSelectors ==
    {i \in MatchingSelectors :
        \E k \in 1..Len(probe.cfg.pipelines) :
            probe.cfg.pipelines[k].id = probe.cfg.pipeline_select[i].pipeline}

\* the result select_pipeline gives when no selector decides
IsFallback(out, cfg) ==
    IF Len(cfg.pipelines) > 0
    THEN out.pipeline = cfg.pipelines[1] /\ out.id = cfg.pipelines[1].id
    ELSE out.pipeline = None /\ out.id = "default"

\* C18: the first selector whose matcher chain is true names the pipeline; with
\* no matching selector the first pipeline is used, or none with id "default".
C18_FirstMatchNamesPipeline ==
    Selected =>
        IF MatchingSelectors # {}
        THEN probe.out.id =
                probe.cfg.pipeline_select[CHOOSE i \in MatchingSelectors :
                                             \A j \in MatchingSelectors : i <= j].pipeline
        ELSE IsFallback(probe.out, probe.cfg)

\* C18, amended: the first selector whose matcher chain is true and whose
\* pipeline exists in the config names the pipeline; with no such selector the
\* first pipeline is used, or none with id "default".
C18_FirstUsableMatchNamesPipeline ==
    Selected =>
        IF UsableSelectors # {}
        THEN LET first == CHOOSE i \in UsableSelectors : \A j \in UsableSelectors : i <= j
             IN /\ probe.out.id = probe.cfg.pipeline_select[first].pipeline
                /\ probe.out.pipeline # None
                /\ probe.out.pipeline.id = probe.out.id
        ELSE IsFallback(probe.out, probe.cfg)

C18_Witness ==
    /\ Selected
    /\ \E i \in UsableSelectors : \E j \in UsableSelectors :
          /\ i < j
          /\ probe.cfg.pipeline_select[i].pipeline # probe.cfg.pipeline_select[j].pipeline
          /\ probe.out.id = probe.cfg.pipeline_select[i].pipeline
          /\ probe.out.id # probe.cfg.pipelines[1].id

\* eval_match_chain has returned
Folded == probe.kind = "eval_match_chain" /\ probe.out # None

RECURSIVE TableAcc(_, _, _)
\* the accumulator after items 1..i, by the operator table
TableAcc(ops, vals, i) ==
    IF i = 1 THEN vals[1]
    ELSE LET acc == TableAcc(ops, vals, i - 1)
         IN CASE ops[i] = "and" -> IF acc THEN vals[i] ELSE acc
              [] ops[i] = "or" -> IF ~acc THEN vals[i] ELSE acc
              [] ops[i] = "and_not" -> IF acc THEN ~vals[i] ELSE acc
              [] ops[i] = "or_not" -> IF ~acc THEN ~vals[i] ELSE acc

\* item i's step is skipped: the accumulator before it decides
TableSkips(ops, vals, i) ==
    LET acc == TableAcc(ops, vals, i - 1)
    IN IF ops[i] \in {"and", "and_not"} THEN ~acc ELSE acc

\* C19: eval_match_chain returns the left-to-right fold of the operator table,
\* the first operator ignored, true for the empty chain, and invokes the
\* predicate of an item exactly when the item's step is not skipped.
C19_ChainIsTableFold ==
    Folded =>
        LET n == Len(probe.ops)
        IN /\ n = 0 => probe.out.acc = TRUE /\ probe.out.invoked = {}
           /\ n > 0 =>
                /\ probe.out.acc = TableAcc(probe.ops, probe.vals, n)
                /\ probe.out.invoked =
                      {1} \cup {i \in 2..n : ~TableSkips(probe.ops, probe.vals, i)}

C19_Witness ==
    /\ Folded /\ Len(probe.ops) = MaxChain
    /\ probe.ops[1] = "or_not" /\ probe.vals[1] = TRUE
    /\ probe.out.invoked = {1, MaxChain}
    /\ probe.out.acc = FALSE

\* get_candidates has returned
Collected == probe.kind = "get_candidates" /\ probe.out # None

\* the rules of the probe filed in a map of its index under a key that holds
Filed(entries, Holds(_)) ==
    {entries[i].rule_idx : i \in {k \in 1..Len(entries) : Holds(entries[k].key)}}

\* key equals qname or is a suffix of qname that starts at a label
SuffixOfName(key, qname) ==
    \/ key = qname
    \/ EndsWith(qname, <<".">> \o key)

\* C20: get_candidates returns a list sorted ascending without duplicates that
\* contains every always_check rule, every rule filed under the exact qname,
\* every rule filed under a suffix that equals qname or is a suffix of it at a
\* label boundary, and every rule filed under qtype.
C20_CandidatesComplete ==
    Collected =>
        LET index == BuildIndex(probe.rules, Len(probe.rules))
            list == probe.out.list
            got == {list[i] : i \in 1..Len(list)}
        IN /\ \A i \in 1..Len(list) : \A j \in 1..Len(list) : i < j => list[i] < list[j]
           /\ \A i \in 1..Len(index.always_check) : index.always_check[i] \in got
           /\ Filed(index.domain_exact, LAMBDA k : k = probe.qname) \subseteq got
           /\ Filed(index.domain_suffix, LAMBDA k : SuffixOfName(k, probe.qname)) \subseteq got
           /\ Filed(index.query_type, LAMBDA k : k = probe.qtype) \subseteq got

C20_Witness ==
    /\ Collected /\ Len(probe.out.list) = MaxRules
    /\ LET index == BuildIndex(probe.rules, Len(probe.rules))
       IN /\ Len(index.always_check) = 1 /\ Len(index.domain_exact) = 1
          /\ Len(index.query_type) = 1 /\ Len(index.domain_suffix) = 1
          /\ index.domain_suffix[1].key # probe.qname
          /\ index.domain_exact[1].rule_idx < index.always_check[1]

\* C21: one run of apply_response_actions issues at most MAX_RESPONSE_FORWARDS
\* upstream calls; when it meets one Forward action more it issues no call and
\* returns the SERVFAIL Static result, which is the answer of the request.
C21_ForwardLimit ==
    \A c \in Calls :
        /\ calls[c].ra_calls <= MAX_RESPONSE_FORWARDS
        /\ calls[c].ra_forwards > MAX_RESPONSE_FORWARDS =>
              /\ calls[c].ra_calls = MAX_RESPONSE_FORWARDS
              /\ calls[c].pc \in {"exit", "done"}
              /\ calls[c].result =
                    [kind |-> "ok",
                     bytes |-> build_response(calls[c].packet, "ServFail", <<>>)]

C21_Witness ==
    \E c \in Calls :
        /\ calls[c].ra_forwards = MAX_RESPONSE_FORWARDS + 1
        /\ calls[c].ra_calls = MAX_RESPONSE_FORWARDS
        /\ Answered(c) /\ calls[c].path = "response_action"

\* the attempts forward_udp_smart is to make with an upstream timeout of t
\* milliseconds: UDP with half the budget but no less than 50 ms, UDP with the
\* budget, TCP with the budget
SmartSchedule(t) ==
    << [transport |-> "udp", dur |-> Max(t \div 2, 50)],
       [transport |-> "udp", dur |-> t],
       [transport |-> "tcp", dur |-> t] >>

\* C22: forward_udp_smart makes its attempts one after the other in the order
\* UDP with budget T/2 (at least 50 ms), UDP with budget T, TCP with budget T;
\* an attempt starts only after the one before failed, in whatever way; the
\* first success is returned at once and the call fails only when the TCP
\* attempt fails.
C22_SmartAttempts ==
    probe.kind = "forward_udp_smart" =>
        LET log == probe.log
            n == Len(log)
        IN /\ n <= 3
           /\ \A i \in 1..n :
                 /\ log[i].transport = SmartSchedule(probe.timeout_dur)[i].transport
                 /\ log[i].dur = SmartSchedule(probe.timeout_dur)[i].dur
                 /\ i < n => log[i].result \in SendErrors
           /\ probe.pc = "returned" =>
                 /\ log[n].result # "running"
                 /\ probe.out.kind = "ok" <=> log[n].result = "ok"
                 /\ probe.out.kind = "err" => n = 3
           /\ probe.pc \in {"udp", "tcp"} => log[n].result = "running"

\* every rewrite_id call has returned an id
MuxAllReturned == \A t \in MuxTasks : probe.tasks[t].pc = "returned"

\* no call has failed, the ids returned so far differ from each other and none
\* was a key of the pending map when it was chosen
MuxDistinct ==
    \A t \in MuxTasks :
        /\ probe.tasks[t].pc # "failed"
        /\ probe.tasks[t].pc = "returned" =>
              /\ ~probe.tasks[t].in_use
              /\ \A u \in MuxTasks :
                    (u # t /\ probe.tasks[u].pc = "returned")
                       => probe.tasks[u].new_id # probe.tasks[t].new_id

\* C23: concurrent rewrite_id calls on one TcpMuxClient all complete, and the
\* ids they return are pairwise distinct and were not keys of the pending map
\* when they were chosen.
C23_RewriteIdDistinct == []MuxDistinct /\ <>MuxAllReturned

C23_Witness ==
    /\ MuxAllReturned
    /\ \E t \in MuxTasks : probe.tasks[t].tries > 1
    /\ \E t \in MuxTasks : \E u \in MuxTasks :
          probe.tasks[t].tries = 1 /\ probe.tasks[u].new_id < probe.tasks[t].new_id

\* the answer the claim gives for an address string
StaticIpTable(qname, ip) ==
    IF ip \in {"10.9.9.9", "192.0.2.1"}
    THEN [rcode |-> "NoError",
          answers |-> <<[name |-> qname, ttl |-> 300, rtype |-> "A", data |-> ip]>>]
    ELSE IF ip \in {"::1", "2001:db8::1"}
    THEN [rcode |-> "NoError",
          answers |-> <<[name |-> qname, ttl |-> 300, rtype |-> "AAAA", data |-> ip]>>]
    ELSE [rcode |-> "ServFail", answers |-> <<>>]

Blocked(c) == calls[c].pc = "await" /\ chan[c] = Pending

\* C25: every request that entered handle_packet leaves it with a response or
\* an error, given that every upstream call returns or times out. As a property
\* of finite runs: the requests never come to a state in which one of them
\* waits while every other request has returned, has not arrived or waits too,
\* so that no step of any request is left to wake it.
C25_NoRequestStranded ==
    ~ /\ \E c \in Calls : Blocked(c)
      /\ \A d \in Calls : calls[d].pc \in {"idle", "done"} \/ Blocked(d)

\* C26: no request waits in a slot it claimed itself: the waiters of a slot
\* never include the request that holds the slot as its leader, on a
\* response-phase jump into an already claimed fingerprint either.
C26_NeverFollowsItself ==
    \A h \in Hashes :
        inflight[h] # None => ~InSeq(inflight[h].owner, inflight[h].waiters)

\* the decision apply_rules takes for the request of a call when both caches
\* are empty
FullPathDecision(c) ==
    apply_rules([h \in Hashes |-> None], compile_pipelines(calls[c].cfg), calls[c].cfg,
                select_pipeline(calls[c].cfg, ListenerLabel, calls[c].q).pipeline,
                calls[c].q, {}).decision

\* C27: an answer of the compiled static fast path has the rcode and the
\* answers of the decision apply_rules takes for the same request on empty
\* caches; the precomputed action of a later rule never answers when an earlier
\* matching rule decides differently.
C27_FastPathAgrees ==
    \A c \in Calls :
        (calls[c].pc = "done" /\ calls[c].path = "fast_static") =>
            /\ FullPathDecision(c).kind = "static"
            /\ FullPathDecision(c).rcode = calls[c].result.bytes.body.rcode
            /\ FullPathDecision(c).answers = calls[c].result.bytes.body.answers

\* C28: a decision taken from the rule cache, by apply_rules or by
\* handle_packet_fast, is the decision a walk of the rules of that pipeline with
\* an empty skip set gives for the request that uses it (its QCLASS and client
\* address included), under the snapshot the request runs with.
C28_L1IsFullWalk ==
    \A c \in Calls :
        \A u \in calls[c].l1_used :
            u.entry_decision =
                FirstMatchDecision(calls[c].cfg, FindPipeline(calls[c].cfg, u.pipeline_id),
                                   calls[c].q, {})

\* C29: a response served from the response cache is, up to the transaction
\* id, a response to the request of the client it is served to: it answers the
\* question of that request, QCLASS included, and when the rules decide that
\* request statically it has the rcode and the answers of that decision.
C29_L2AnswersOwnRequest ==
    \A c \in Calls :
        (calls[c].pc = "done" /\ calls[c].path = "cache_hit") =>
            LET served == calls[c].result.bytes.body
                d == FullPathDecision(c)
            IN /\ served.question = [qname |-> calls[c].q.qname, qtype |-> calls[c].q.qtype,
                                     qclass |-> calls[c].q.qclass]
               /\ d.kind = "static" =>
                     /\ served.kind = "built"
                     /\ served.rcode = d.rcode /\ served.answers = d.answers

\* C30: the cleanup a request runs when it leaves handle_packet removes only a
\* slot this request claimed and still holds: a step that drops the guards of a
\* request removes no slot that another request has claimed since.
C30_CleanupRemovesOwnSlot ==
    [][\A c \in Calls :
          (calls[c].pc = "exit" /\ calls'[c].pc = "done") =>
              \A h \in Hashes :
                  (inflight[h] # None /\ inflight'[h] = None) => inflight[h].owner = c]_vars

\* a step in which the leader c goes through Continue and on to the upstream
\* call of the next decision of the same pipeline
ContinuedToUpstream(c) ==
    /\ calls[c].pc = "upstream" /\ calls[c].site = "hp" /\ calls[c].dedupe_registered
    /\ calls'[c].pc = "upstream" /\ calls'[c].site = "hp"
    /\ calls'[c].continues = calls[c].continues + 1
    /\ calls'[c].request_jumps = calls[c].request_jumps

\* what the re-walks after a Continue did: a decision that allows reuse and
\* finds a saved response issues no upstream call, and an explicit Forward
\* decision of a leader issues one
RewalksReuseOnAllow ==
    \A c \in Calls :
        \A o \in calls[c].rewalks :
            /\ (o.allow /\ o.saved) => ~o.called
            /\ (~o.allow /\ o.registered) => o.called

\* C31: when the response actions end in Continue the leader notifies nobody
\* and keeps its slot, adds the name of the rule to the skip set and decides
\* again with a rule outside the set; a following Allow returns the saved
\* response without an upstream call and a following explicit Forward issues a
\* new upstream call.
C31_ContinueRewalks ==
    /\ []RewalksReuseOnAllow
    /\ [][\A c \in Calls :
            ContinuedToUpstream(c) =>
                /\ inflight' = inflight /\ chan' = chan
                /\ calls'[c].skip_rules =
                      calls[c].skip_rules \cup {calls[c].decision.rule_name}
                /\ calls'[c].decision.rule_name \notin calls'[c].skip_rules]_vars

C31_Witness ==
    \E c \in Calls :
        /\ calls[c].pc = "done"
        /\ calls[c].upstream_calls = 1
        /\ calls[c].continues = 1
        /\ \E o \in calls[c].rewalks : o.allow /\ o.saved /\ ~o.called
        /\ \E d \in Calls : d # c /\ calls[d].path = "follower" /\ calls[d].leader = c

\* C32: every rule whose matcher chain is true for a request is among the
\* candidates walked for it, so the decision from the candidates is the
\* decision of all rules of the pipeline tried in declaration order.
C32_IndexComplete ==
    (probe.kind = "index_walk" /\ probe.out # None) =>
        /\ probe.out.matching \subseteq probe.out.candidates
        /\ probe.out.decision = probe.out.in_order

\* C33: every entry of the L2 cache is stored under the fingerprint of its own
\* pipeline id, name and record type.
C33_L2KeyIsEntryFingerprint ==
    \A h \in Hashes :
        cache[h] # None =>
            h = calculate_cache_hash_for_dedupe(cache[h].pipeline_id, cache[h].qname,
                                                cache[h].qtype)

\* C34: the receive task of a pooled socket takes an entry out of the inflight
\* map, and answers its waiter, only for a datagram that carries the entry's
\* rewritten id and comes from the entry's expected upstream; a datagram with
\* that id from another address leaves the entry where it is.
C34_RemovedOnlyFromExpected ==
    probe.kind = "udp_pool" =>
        \A r \in probe.received :
            r.removed => (r.src = r.entry.expected_addr /\ r.answered)

\* a request that waits for its response
TcpWaiting(t) == probe.tasks[t].pc = "wait" /\ probe.tasks[t].rx = None

\* C35: after a reader's read error no request of the client is left waiting
\* for its timeout: whenever the reader of a connection has stopped, no
\* request written on that connection still waits for a response.
C35_ReaderErrorFailsAll ==
    probe.kind = "tcp_mux" =>
        \A t \in TcpSenders :
            TcpWaiting(t) => probe.readers[probe.tasks[t].wrote_on] # "stopped"

\* C36: a reader acts only for its own connection: there is never more than
\* one reader task of a client, a reader's failure fails no request that was
\* written on another connection, and it resets no write half but its own.
C36_ReaderOwnConnectionOnly ==
    probe.kind = "tcp_mux" =>
        /\ Cardinality({ g \in TcpConns : probe.readers[g] \in {"read", "failing"} }) <= 1
        /\ \A t \in TcpSenders :
              LET task == probe.tasks[t]
              IN (task.rx # None /\ task.rx.kind = "err" /\ task.wrote_on # 0)
                    => task.rx.by = task.wrote_on
        /\ \A r \in probe.resets : r.by # 0 => r.conn \in {0, r.by}

\* C37: when send returns an error after it has allocated an id, the id is no
\* longer in pending and the connection has been reset.
C37_ErrorLeavesClean ==
    [][probe.kind = "tcp_mux" =>
        \A t \in TcpSenders :
            ( /\ probe.tasks[t].pc # "done" /\ probe'.tasks[t].pc = "done"
              /\ probe'.tasks[t].result.kind = "err"
              /\ probe.tasks[t].new_id >= 0 )
            => /\ probe'.pending[probe.tasks[t].new_id] = None
               /\ probe'.conn = 0]_vars

\* C38: the pending map of a client never holds more entries than the
\* semaphore has permits, and every entry belongs to a send that holds a
\* permit: it is inserted under the permit and gone before send returns.
C38_PendingWithinPermits ==
    probe.kind = "tcp_mux" =>
        /\ Cardinality({ i \in 0..(IdSpace - 1) : probe.pending[i] # None }) <= TcpPermits
        /\ \A i \in 0..(IdSpace - 1) :
              probe.pending[i] # None =>
                  /\ probe.tasks[probe.pending[i].tx].permit
                  /\ probe.tasks[probe.pending[i].tx].new_id = i

\* all permits are held by sends with an entry in pending while a further
\* send got no permit, and a send has returned with its entry taken out
C38_Witness ==
    /\ probe.kind = "tcp_mux"
    /\ Cardinality({ i \in 0..(IdSpace - 1) : probe.pending[i] # None }) = TcpPermits
    /\ \E t \in TcpSenders :
          /\ probe.tasks[t].pc = "done"
          /\ probe.tasks[t].result.kind = "err"
          /\ probe.tasks[t].result.error = "semaphore timeout"

\* the action a returned apply_response_actions call stopped at, "end" past
\* the last one
RaEndedBy ==
    IF probe.c.ra.i > Len(probe.actions) THEN "end" ELSE probe.actions[probe.c.ra.i].type

\* the context at the return: of the last Forward action if one was made (all
\* that went on were successful), else the one the call was given
RaLastCtx ==
    IF probe.forwarded = <<>> THEN probe.ctx0
    ELSE LET last == probe.forwarded[Len(probe.forwarded)]
         IN ResponseContext(last.resp.raw, last.upstream)

\* C39: an action list that ends at Allow or at its end returns Upstream with
\* the context at hand and the response matchers evaluated on it, or a
\* SERVFAIL static when there is no context; Deny returns a REFUSED static
\* whatever the context.
C39_AllowOrEndUsesContext ==
    (probe.kind = "ra" /\ probe.out # None /\ probe.out.kind # "error") =>
        /\ (RaEndedBy \in {"allow", "end"} /\ RaLastCtx # None) =>
              /\ \A i \in 1..Len(probe.forwarded) : probe.forwarded[i].resp.kind = "ok"
              /\ probe.out = [kind |-> "upstream", ctx |-> RaLastCtx,
                              resp_match |->
                                  ResponseMatches(probe.response_matchers,
                                      RaLastCtx.upstream,
                                      [rcode |-> RcodeStr(RaLastCtx.raw.body.rcode)])]
        /\ (RaEndedBy \in {"allow", "end"} /\ RaLastCtx = None) =>
              /\ probe.out.kind = "static" /\ probe.out.rcode = "ServFail"
              /\ probe.out.bytes = build_response(RaPacket, "ServFail", <<>>)
        /\ RaEndedBy = "deny" =>
              /\ probe.out.kind = "static" /\ probe.out.rcode = "Refused"
              /\ probe.out.bytes = build_response(RaPacket, "Refused", <<>>)

\* a call without an initial context ends at Allow after a successful Forward
\* whose response the rule's matchers match
C39_Witness ==
    /\ probe.kind = "ra" /\ probe.out # None /\ probe.out.kind = "upstream"
    /\ probe.ctx0 = None
    /\ RaEndedBy = "allow"
    /\ Len(probe.forwarded) = 1
    /\ probe.out.ctx.upstream = RaUpstreamAddr
    /\ probe.out.resp_match

\* every index read is inside the packet, every index written inside the
\* caller's buffer, and a name whose pointers were followed 5 times is rejected
QuickSafe ==
    probe.kind = "parse_quick" =>
        /\ \A i \in probe.reads : i >= 0 /\ i < Len(probe.packet)
        /\ \A i \in probe.writes : i >= 0 /\ i < probe.buf_len
        /\ probe.hops >= 5 => (probe.pc = "done" /\ probe.out = None)
        /\ (probe.pc = "done" /\ probe.out # None) =>
              /\ probe.hops < 5
              /\ Len(probe.out.qname) <= probe.buf_len

\* the loop over the name makes a bounded number of passes, so the call, whose
\* every pass either returns or goes on to the next, comes to its return
QuickBounded ==
    probe.kind = "parse_quick" => probe.passes <= QuickPassLimit(probe.packet)

\* C40: parse_quick returns on every input; it returns None for a name whose
\* compression pointers it has followed 5 times, pointer loops among them; it
\* reads no byte outside the packet and writes none outside the buffer.
C40_ParseQuickBounded == QuickSafe /\ QuickBounded

\* a name that loops through a label is rejected at the fifth pointer, after
\* label bytes went into the buffer
C40_Witness ==
    /\ probe.kind = "parse_quick" /\ probe.pc = "done" /\ probe.out = None
    /\ probe.hops = 5
    /\ probe.writes # {}
====
